---- MODULE Spec2Model ----
(***************************************************************************)
(* Bundle dispatch engine (buy): rate limiter, preparation client, local   *)
(* signer, bundle splitter, relay client and the three dispatch            *)
(* topologies of executeBuy.                                               *)
(*                                                                         *)
(* and the two volume bots that drive it: the local trading scheduler and   *)
(* the client of the backend session.                                      *)
(*                                                                         *)
(* The specifications share the variables of this module:                  *)
(*   Spec       one executeBuy call, from entry to its returned BuyResult  *)
(*   SpecSplit  splitLargeBundles applied to a bounded set of inputs       *)
(*   SpecRate   checkRateLimit called by overlapping callers over time     *)
(*   SpecRetry  one call of VolumeBot.executeWithRetry                     *)
(*   SpecPrep   the response handling of getPartiallyPreparedTransactions  *)
(*   SpecSchedFair  the local scheduler with its interval timers firing   *)
(*   SpecBot    start, stop, timers and trades of one VolumeBot instance:  *)
(*              either the local scheduler or the backend-session client   *)
(***************************************************************************)
EXTENDS Integers, Sequences, FiniteSets, TLC

VARIABLES
    \* ---- inputs of executeBuy -------------------------------------------
    wallets,          \* number of wallets; wallet k has address k
    config,           \* BuyConfig: bundleMode, protocol, singleDelay, batchDelay
    urlSet,           \* window.tradingServerUrl is configured
    env,              \* what is assumed of the collaborators in this run
    \* ---- program state ---------------------------------------------------
    pc,               \* position inside executeBuy and the mode function
    i,                \* loop index (wallet index / batch index), 0-based
    successful,       \* successfulWallets / successfulBatches / successfulBundles
    failed,           \* failedWallets / failedBatches / failedBundles
    bundlesTodo,      \* bundles of the current unit still to be signed / sent
    signedBundle,     \* transactions about to be handed to sendBundle
    sub,              \* all-in-one: one record per bundlePromise
    rateLimitState,   \* module-level rate limiter state
    now,              \* Date.now(), milliseconds
    wakeAt,           \* due time of the setTimeout inside checkRateLimit
    ret,              \* the BuyResult returned by executeBuy
    \* ---- observations of the calls made ----------------------------------
    prepCalls,        \* calls of getPartiallyPreparedTransactions
    lastPrepArgs,     \* walletAddresses of the latest such call
    netCalls,         \* fetch() requests issued (builder and relay)
    relayCalls,       \* calls of sendBundle
    acquired,         \* completed calls of checkRateLimit
    delays,           \* inter-unit waits (singleDelay / batchDelay) performed
    lastDelay,        \* duration of the latest inter-unit wait
    \* ---- SpecRate ---------------------------------------------------------
    waiters,          \* due times of callers suspended in checkRateLimit
    grantLog,         \* times at which a slot was granted, in order
    overtaken,        \* a slot was granted while an earlier caller was suspended
    \* ---- SpecSplit --------------------------------------------------------
    splitIn,          \* argument of splitLargeBundles
    splitOut,         \* its return value
    \* ---- SpecPrep ---------------------------------------------------------
    response,         \* parsed JSON body of the builder's answer
    prepared,         \* what getPartiallyPreparedTransactions makes of it
    \* ---- SpecBot: the local scheduler ------------------------------------
    bot,              \* fields of the VolumeBot object
    timers,           \* pending setTimeout / setInterval timers
    flight,           \* trades whose dispatch has not settled yet
    hist,             \* what has been observed of the run so far
    \* ---- SpecBot: the backend-session client -----------------------------
    remote,           \* fields of the VolumeBot object
    remoteEnv,        \* its live timers, requests in flight, backend sessions
    \* ---- SpecRetry -------------------------------------------------------
    retry             \* one call of executeWithRetry

vars == << wallets, config, urlSet, env, pc, i, successful, failed, bundlesTodo,
           signedBundle, sub, rateLimitState, now, wakeAt, ret, prepCalls,
           lastPrepArgs, netCalls, relayCalls, acquired, delays,
           lastDelay, waiters, grantLog, overtaken, splitIn, splitOut, response, prepared,
           bot, timers, flight, hist, remote, remoteEnv, retry >>

schedVars == << bot, timers, flight, hist, remote, remoteEnv, retry >>

dispatchVars == << wallets, config, urlSet, env, pc, i, successful, failed,
                   bundlesTodo, signedBundle, sub, wakeAt, ret, prepCalls,
                   lastPrepArgs, netCalls, relayCalls, acquired,
                   delays, lastDelay >>

----------------------------------------------------------------------------
(* Program constants *)

MAX_BUNDLES_PER_SECOND == 10

MAX_TRANSACTIONS_PER_BUNDLE == 5

RATE_WINDOW_MS == 1000

DEFAULT_SINGLE_DELAY == 200

DEFAULT_BATCH_DELAY == 1000

batchSize == 5

STAGGER_MS == 100

(* Bounds of the model *)

MaxBatches == 2

MaxSingleWallets == 3

MaxBundles == 1

MaxSplitBundles == 2

MaxSplitLen == 11

MaxRateCalls == 22

MaxTime == 2000

TimeStep == 500

CustomDelay == 50

----------------------------------------------------------------------------
(* Values *)

Undefined == -1

Min(a, b) == IF a < b THEN a ELSE b

\* An unsigned transaction template as returned by the builder.
Template(k) == [kind |-> "tx", id |-> k, signed |-> FALSE]

\* transaction.sign(signers); bs58.encode(transaction.serialize())
SignTx(tx) == [tx EXCEPT !.signed = TRUE]

\* The signed 0.03 SOL transfer built by createDeveloperBuyFeeTransaction.
FeeTx == [kind |-> "fee", id |-> 0, signed |-> TRUE]

NullTx == [kind |-> "null", id |-> 0, signed |-> FALSE]

\* A BuyBundle. valid = FALSE stands for an object whose transactions
\* property is missing or not an array.
Bundle(txs) == [valid |-> TRUE, transactions |-> txs]

InvalidBundle == [valid |-> FALSE, transactions |-> << >>]

\* The templates first+1 .. first+n, in order.
Templates(first, n) == [k \in 1..n |-> Template(first + k)]

RECURSIVE Concat(_)
Concat(bundles) ==
    IF bundles = << >> THEN << >>
    ELSE Head(bundles).transactions \o Concat(Tail(bundles))

\* Bundles for a list of shapes: a shape n >= 0 is a bundle of n templates,
\* Undefined is an invalid bundle. Templates are numbered consecutively.
RECURSIVE MkBundles(_, _)
MkBundles(shapes, first) ==
    IF shapes = << >> THEN << >>
    ELSE IF Head(shapes) = Undefined
         THEN << InvalidBundle >> \o MkBundles(Tail(shapes), first)
         ELSE << Bundle(Templates(first, Head(shapes))) >>
              \o MkBundles(Tail(shapes), first + Head(shapes))

----------------------------------------------------------------------------
(* splitLargeBundles *)

\* Chunks with the slice one transaction too long: slice(i, i + MAX + 1).
RECURSIVE ChunksOverlapping(_, _)
ChunksOverlapping(txs, from) ==
    IF from >= Len(txs) THEN << >>
    ELSE << Bundle(SubSeq(txs, from + 1,
                          Min(from + MAX_TRANSACTIONS_PER_BUNDLE + 1, Len(txs)))) >>
         \o ChunksOverlapping(txs, from + MAX_TRANSACTIONS_PER_BUNDLE)

\* for (i = 0; i < length; i += MAX) result.push({transactions: slice(i, i + MAX)})
RECURSIVE Chunks(_, _)
Chunks(txs, from) ==
    IF from >= Len(txs) THEN << >>
    ELSE << Bundle(SubSeq(txs, from + 1,
                          Min(from + MAX_TRANSACTIONS_PER_BUNDLE, Len(txs)))) >>
         \o Chunks(txs, from + MAX_TRANSACTIONS_PER_BUNDLE)

RECURSIVE splitLargeBundles(_)
splitLargeBundles(bundles) ==
    IF bundles = << >> THEN << >>
    ELSE LET bundle == Head(bundles)
             rest   == splitLargeBundles(Tail(bundles))
         IN  IF ~bundle.valid THEN rest
             ELSE IF Len(bundle.transactions) <= MAX_TRANSACTIONS_PER_BUNDLE
                  THEN << bundle >> \o rest
                  ELSE Chunks(bundle.transactions, 0) \o rest

----------------------------------------------------------------------------
(* checkRateLimit *)

\* if (now - lastReset >= 1000) { count = 0; lastReset = now; }
RateRefresh(st, t) ==
    IF t - st.lastReset >= RATE_WINDOW_MS
    THEN [st EXCEPT !.count = 0, !.lastReset = t]
    ELSE st

\* if (count >= maxBundlesPerSecond): the caller takes the wait branch
RateMustWait(st) == st.count >= st.maxBundlesPerSecond

\* const waitTime = 1000 - (now - lastReset)
RateWaitTime(st, t) == RATE_WINDOW_MS - (t - st.lastReset)

\* rateLimitState.count++
RateGrant(st) == [st EXCEPT !.count = st.count + 1]

\* after the wait: count = 0; lastReset = Date.now(); then count++
RateAfterWait(st, t) == RateGrant([st EXCEPT !.count = 0, !.lastReset = t])

\* The part of checkRateLimit that runs before its first suspension point:
\* either the slot is granted at once, or the caller sleeps until `due`.
checkRateLimit(st, t) ==
    LET st1 == RateRefresh(st, t)
    IN  IF RateMustWait(st1)
        THEN [wait |-> TRUE, state |-> st1, due |-> t + RateWaitTime(st1, t)]
        ELSE [wait |-> FALSE, state |-> RateGrant(st1), due |-> t]

FreshRateLimitState(t) ==
    [count |-> 0, lastReset |-> t, maxBundlesPerSecond |-> MAX_BUNDLES_PER_SECOND]

----------------------------------------------------------------------------
(* sendBundle *)

\* What the relay does with one submission:
\*   "ok"          body {success: true, result: <id>}
\*   "rejected"    body {success: false, error: ...}, no result field
\*   "unreachable" fetch() rejects
RelayAnswers == {"ok", "rejected", "unreachable"}

\* The answers the relay may give under the assumption env of a run:
\* "any" assumes nothing, "relayRejects" is a relay that rejects every
\* submission at application level, "allSucceed" is a run of single mode in
\* which the builder returns one bundle with transactions for every wallet,
\* every signing succeeds and the relay accepts every submission.
RelayAnswersIn(e) ==
    IF e = "relayRejects" THEN {"rejected"}
    ELSE IF e = "allSucceed" THEN {"ok"}
    ELSE RelayAnswers

Envs == {"any", "relayRejects", "allSucceed"}

\* sendBundle: throws without a request when the URL is not configured and
\* when fetch throws; otherwise returns data.result whatever data.success says.
sendBundle(url, answer) ==
    IF ~url THEN [threw |-> TRUE, result |-> "undefined", fetches |-> 0]
    ELSE [threw   |-> answer = "unreachable",
          result  |-> IF answer = "ok" THEN "id" ELSE "undefined",
          fetches |-> 1]

----------------------------------------------------------------------------
(* getPartiallyPreparedTransactions *)

\* What the builder does with one request. The bundles of a reply are
\* invalid, empty, exactly at the limit, or one over it.
BundleShapes ==
    {Undefined, 0, MAX_TRANSACTIONS_PER_BUNDLE, MAX_TRANSACTIONS_PER_BUNDLE + 1}

ShapeLists == UNION {[1..k -> BundleShapes] : k \in 0..MaxBundles}

\* The values of data.error: the empty string stands for an error property
\* that is missing or falsy.
BuilderErrorTexts == {"", "Insufficient balance"}

MsgPreparationFailed == "Failed to get partially prepared transactions"

\* data.error || 'Failed to get partially prepared transactions'
PreparationError(error) == IF error # "" THEN error ELSE MsgPreparationFailed

\* HTTP status codes of an answer that is not ok.
HttpErrorCodes == {429, 500}

\* An answer of the builder:
\*   "unreachable"  fetch() rejects
\*   "http"         response.ok is false, with the status code
\*   "failure"      body with a falsy success, with its error property
\*   "ok"           body {success: true, bundles: [...]}
BuilderReply(status, code, error, bundles) ==
    [status |-> status, code |-> code, error |-> error, bundles |-> bundles]

BuilderReplies ==
    {BuilderReply("unreachable", 0, "", << >>)}
    \cup {BuilderReply("http", c, "", << >>) : c \in HttpErrorCodes}
    \cup {BuilderReply("failure", 200, e, << >>) : e \in BuilderErrorTexts}
    \cup {BuilderReply("ok", 200, "", MkBundles(sh, 0)) : sh \in ShapeLists}

\* The replies the builder may give under the assumption env of a run.
BuilderRepliesIn(e) ==
    IF e = "allSucceed"
    THEN {r \in BuilderReplies :
            /\ r.status = "ok" /\ Len(r.bundles) = 1
            /\ r.bundles[1].valid /\ Len(r.bundles[1].transactions) > 0}
    ELSE BuilderReplies

\* Whether the signing of a bundle may succeed or fail under env.
SignOutcomesIn(e) == IF e = "allSucceed" THEN {TRUE} ELSE BOOLEAN

MsgUrl == "Trading server URL not configured. Please check your server connection."

\* `HTTP error! Status: ${response.status}`
MsgHttpError(code) == "HTTP error! Status: " \o ToString(code)

\* The call as a whole: throws (with the message of the Error) or returns the
\* bundles of the reply. No request is issued when the URL is not configured.
getPartiallyPreparedTransactions(url, reply) ==
    IF ~url
    THEN [threw |-> TRUE, message |-> MsgUrl, bundles |-> << >>, fetches |-> 0]
    ELSE IF reply.status = "unreachable"
    THEN [threw |-> TRUE, message |-> "Failed to fetch", bundles |-> << >>,
          fetches |-> 1]
    ELSE IF reply.status = "http"
    THEN [threw |-> TRUE, message |-> MsgHttpError(reply.code),
          bundles |-> << >>, fetches |-> 1]
    ELSE IF reply.status = "failure"
    THEN [threw |-> TRUE, message |-> PreparationError(reply.error),
          bundles |-> << >>, fetches |-> 1]
    ELSE [threw |-> FALSE, message |-> "", bundles |-> reply.bundles, fetches |-> 1]

----------------------------------------------------------------------------
(* completeBundleSigning *)

FeeProtocols == {"pumpfun", "bonk"}

\* Returns the encoded fee transaction, or null when anything inside fails.
createDeveloperBuyFeeTransaction(feeOk) == IF feeOk THEN FeeTx ELSE NullTx

\* A signing that fails when the fee transaction cannot be built.
completeBundleSigningFeeRequired(bundle, nKeypairs, protocol, signOk, feeOk) ==
    IF ~bundle.valid THEN [threw |-> FALSE, transactions |-> << >>]
    ELSE IF bundle.transactions # << >> /\ ~signOk
    THEN [threw |-> TRUE, transactions |-> << >>]
    ELSE IF protocol \in FeeProtocols /\ nKeypairs > 0
    THEN IF feeOk
         THEN [threw |-> FALSE,
               transactions |-> << FeeTx >> \o
                   [k \in 1..Len(bundle.transactions) |-> SignTx(bundle.transactions[k])]]
         ELSE [threw |-> TRUE, transactions |-> << >>]
    ELSE [threw |-> FALSE,
          transactions |->
              [k \in 1..Len(bundle.transactions) |-> SignTx(bundle.transactions[k])]]

\* signOk: every template of the bundle deserializes and signs;
\* feeOk:  the fee transaction can be built (the RPC answers).
completeBundleSigning(bundle, nKeypairs, protocol, signOk, feeOk) ==
    IF ~bundle.valid THEN [threw |-> FALSE, transactions |-> << >>]
    ELSE IF bundle.transactions # << >> /\ ~signOk
    THEN [threw |-> TRUE, transactions |-> << >>]
    ELSE LET signedTransactions ==
                 [k \in 1..Len(bundle.transactions) |-> SignTx(bundle.transactions[k])]
             feeTransaction == createDeveloperBuyFeeTransaction(feeOk)
         IN  IF protocol \in FeeProtocols /\ nKeypairs > 0
                /\ feeTransaction # NullTx
             THEN [threw |-> FALSE,
                   transactions |-> << feeTransaction >> \o signedTransactions]
             ELSE [threw |-> FALSE, transactions |-> signedTransactions]

----------------------------------------------------------------------------
(* Values the variables of one specification hold while another one runs *)

NoConfig ==
    [bundleMode |-> "", protocol |-> "auto", singleDelay |-> Undefined,
     batchDelay |-> Undefined]

NoResult == [returned |-> FALSE, success |-> FALSE, kind |-> "undefined",
             text |-> "", failed |-> 0, succeeded |-> 0]

DispatchUnused ==
    /\ wallets = 0 /\ config = NoConfig /\ urlSet = TRUE /\ env = "any"
    /\ i = 0 /\ successful = 0 /\ failed = 0
    /\ bundlesTodo = << >> /\ signedBundle = << >> /\ sub = << >>
    /\ wakeAt = 0 /\ ret = NoResult
    /\ prepCalls = 0 /\ lastPrepArgs = << >> /\ netCalls = 0 /\ relayCalls = 0
    /\ acquired = 0
    /\ delays = 0 /\ lastDelay = 0

RateUnused == waiters = << >> /\ grantLog = << >> /\ overtaken = FALSE

SplitUnused == splitIn = << >> /\ splitOut = << >>

BotUnused ==
    /\ bot = << >> /\ timers = << >> /\ flight = << >> /\ hist = << >>
    /\ remote = << >> /\ remoteEnv = << >>

RetryUnused == retry = << >>

PrepUnused == response = << >> /\ prepared = << >>

----------------------------------------------------------------------------
(* SpecSplit: splitLargeBundles on every bounded list of bundles *)

SplitShapes == {Undefined} \cup (0..MaxSplitLen)

SplitInputs ==
    {MkBundles(sh, 0) :
        sh \in UNION {[1..k -> SplitShapes] : k \in 0..MaxSplitBundles}}

InitSplit ==
    /\ pc = "split"
    /\ splitIn \in SplitInputs
    /\ splitOut = << >>
    /\ rateLimitState = FreshRateLimitState(0) /\ now = 0
    /\ DispatchUnused /\ RateUnused /\ BotUnused /\ RetryUnused /\ PrepUnused

Split ==
    /\ pc = "split"
    /\ splitOut' = splitLargeBundles(splitIn)
    /\ pc' = "splitDone"
    /\ UNCHANGED << wallets, config, urlSet, env, i, successful, failed, bundlesTodo,
                    signedBundle, sub, rateLimitState, now, wakeAt, ret,
                    prepCalls, lastPrepArgs, netCalls, relayCalls, acquired,
                    delays, lastDelay, waiters, grantLog, overtaken, splitIn,
                    response, prepared, schedVars >>

NextSplit == Split

SpecSplit == InitSplit /\ [][NextSplit]_vars

----------------------------------------------------------------------------
(* SpecPrep: what getPartiallyPreparedTransactions makes of the parsed     *)
(* body of an HTTP 200 answer of the builder.                              *)

MaxRespBundles == 2

MaxRespLen == 1

\* A property of the parsed body: missing, present with a value that is no
\* array, or an array.
Absent == [kind |-> "absent", value |-> << >>]

NotAnArray == [kind |-> "other", value |-> << >>]

ArrayOf(v) == [kind |-> "array", value |-> v]

\* Lists of transaction templates.
TxLists == {Templates(0, n) : n \in 0..MaxRespLen}

\* Elements of data.bundles: a plain array of transactions, an object with a
\* transactions list, an object without one.
BundleElements ==
    {[isArray |-> a, valid |-> TRUE, transactions |-> t] :
        a \in BOOLEAN, t \in TxLists}
    \cup {[isArray |-> FALSE, valid |-> FALSE, transactions |-> << >>]}

BundleElementLists ==
    UNION {[1..k -> BundleElements] : k \in 0..MaxRespBundles}

\* The bodies the builder may send. A body that is itself an array has
\* none of the properties: data.success and data.error read undefined on it.
BuilderResponses ==
    {[isArray |-> FALSE, success |-> ok, error |-> e, bundles |-> b,
      transactions |-> t, nested |-> n, items |-> << >>] :
        ok \in BOOLEAN, e \in BuilderErrorTexts,
        b \in {Absent, NotAnArray} \cup {ArrayOf(l) : l \in BundleElementLists},
        t \in {Absent, NotAnArray} \cup {ArrayOf(l) : l \in TxLists},
        n \in {Absent, NotAnArray} \cup {ArrayOf(l) : l \in TxLists}}
    \cup
    {[isArray |-> TRUE, success |-> FALSE, error |-> "", bundles |-> Absent,
      transactions |-> Absent, nested |-> Absent, items |-> l] :
        l \in TxLists}

MsgNoBackendTransactions == "No transactions returned from backend"

\* Array.isArray(bundle) ? { transactions: bundle } : bundle
WrapBundle(e) ==
    IF e.isArray THEN Bundle(e.transactions)
    ELSE [valid |-> e.valid, transactions |-> e.transactions]

\* const data = await response.json();
\* if (!data.success) throw new Error(data.error || ...);
\* then the chain of format tests, in the order of the code.
parseResponse(data) ==
    IF ~data.success
    THEN [threw |-> TRUE, message |-> PreparationError(data.error),
          bundles |-> << >>]
    ELSE IF data.bundles.kind = "array"
    THEN [threw |-> FALSE, message |-> "",
          bundles |-> [k \in DOMAIN data.bundles.value |->
                          WrapBundle(data.bundles.value[k])]]
    ELSE IF data.transactions.kind = "array"
    THEN [threw |-> FALSE, message |-> "",
          bundles |-> << Bundle(data.transactions.value) >>]
    ELSE IF data.nested.kind = "array"
    THEN [threw |-> FALSE, message |-> "",
          bundles |-> << Bundle(data.nested.value) >>]
    ELSE IF data.isArray
    THEN [threw |-> FALSE, message |-> "", bundles |-> << Bundle(data.items) >>]
    ELSE [threw |-> TRUE, message |-> MsgNoBackendTransactions, bundles |-> << >>]

InitPrep ==
    /\ pc = "prep"
    /\ response \in BuilderResponses
    /\ prepared = << >>
    /\ rateLimitState = FreshRateLimitState(0) /\ now = 0
    /\ DispatchUnused /\ RateUnused /\ SplitUnused /\ BotUnused /\ RetryUnused

ParseResponse ==
    /\ pc = "prep"
    /\ prepared' = parseResponse(response)
    /\ pc' = "prepDone"
    /\ UNCHANGED << wallets, config, urlSet, env, i, successful, failed, bundlesTodo,
                    signedBundle, sub, rateLimitState, now, wakeAt, ret,
                    prepCalls, lastPrepArgs, netCalls, relayCalls, acquired,
                    delays, lastDelay, waiters, grantLog, overtaken, splitIn,
                    splitOut, response, schedVars >>

NextPrep == ParseResponse

SpecPrep == InitPrep /\ [][NextPrep]_vars

\* The body has one of the four shapes the client is to accept.
AcceptedShape(data) ==
    \/ data.isArray
    \/ /\ data.success
       /\ \/ data.bundles.kind = "array"
          \/ data.transactions.kind = "array"
          \/ data.nested.kind = "array"

\* C24: a body of one of the four shapes (a bundles array, a flat
\* transactions array, a nested data.transactions array, a bare array) is
\* accepted and normalised into bundles that each hold the transactions
\* list of the body; a successful body of no such shape fails with an error.
ResponseShapesAccepted ==
    pc = "prepDone" =>
        /\ AcceptedShape(response) =>
              /\ ~prepared.threw
              /\ \A k \in DOMAIN prepared.bundles :
                    prepared.bundles[k].transactions \in TxLists
              /\ response.isArray =>
                    prepared.bundles = << Bundle(response.items) >>
        /\ (~response.isArray /\ response.success /\ ~AcceptedShape(response))
              => prepared.threw /\ prepared.message = MsgNoBackendTransactions

----------------------------------------------------------------------------
(* SpecRate: overlapping callers of checkRateLimit.                        *)
(* Callers are anonymous; the suspended ones are kept in the order of      *)
(* their timers (due times never decrease in arrival order).               *)

InitRate ==
    /\ pc = "rate"
    /\ now = 0
    /\ rateLimitState = FreshRateLimitState(0)
    /\ waiters = << >>
    /\ grantLog = << >>
    /\ overtaken = FALSE
    /\ DispatchUnused /\ SplitUnused /\ PrepUnused /\ BotUnused /\ RetryUnused

\* A caller enters checkRateLimit and runs to its first suspension point
\* or to its end.
RateCall ==
    /\ pc = "rate"
    /\ Len(grantLog) + Len(waiters) < MaxRateCalls
    /\ LET r == checkRateLimit(rateLimitState, now)
       IN  /\ rateLimitState' = r.state
           /\ IF r.wait
              THEN /\ waiters' = Append(waiters, r.due)
                   /\ UNCHANGED << grantLog, overtaken >>
              ELSE /\ grantLog' = Append(grantLog, now)
                   /\ overtaken' = (overtaken \/ waiters # << >>)
                   /\ UNCHANGED waiters
    /\ UNCHANGED << now, pc, splitIn, splitOut, response, prepared >>
    /\ UNCHANGED << dispatchVars, schedVars >>

\* The timer of the longest-suspended caller fires (not before it is due);
\* the caller resets the counter and takes its slot.
RateWake ==
    /\ pc = "rate"
    /\ waiters # << >>
    /\ now >= Head(waiters)
    /\ rateLimitState' = RateAfterWait(rateLimitState, now)
    /\ grantLog' = Append(grantLog, now)
    /\ UNCHANGED overtaken
    /\ waiters' = Tail(waiters)
    /\ UNCHANGED << now, pc, splitIn, splitOut, response, prepared >>
    /\ UNCHANGED << dispatchVars, schedVars >>

\* Time passes.
RateTick ==
    /\ pc = "rate"
    /\ now + TimeStep <= MaxTime
    /\ now' = now + TimeStep
    /\ UNCHANGED << rateLimitState, waiters, grantLog, overtaken, pc, splitIn,
                    splitOut, response, prepared >>
    /\ UNCHANGED << dispatchVars, schedVars >>

NextRate == RateCall \/ RateWake \/ RateTick

SpecRate == InitRate /\ [][NextRate]_vars

\* Slots granted at a time in [from, from + 1000)
GrantsInWindow(from) ==
    Cardinality({k \in DOMAIN grantLog :
                    from <= grantLog[k] /\ grantLog[k] < from + RATE_WINDOW_MS})

----------------------------------------------------------------------------
(* Spec: one call of executeBuy *)

\* x || d
OrDefault(x, d) == IF x = Undefined \/ x = 0 THEN d ELSE x

\* const bundleMode = config.bundleMode || 'batch'; "" stands for a falsy
\* bundleMode: the empty string, or a mode that is not supplied.
BundleModeOf(cfg) == IF cfg.bundleMode = "" THEN "batch" ELSE cfg.bundleMode

\* `Invalid bundle mode: ${bundleMode}. Must be 'single', 'batch', or 'all-in-one'`
MsgInvalidMode(bundleMode) ==
    "Invalid bundle mode: " \o bundleMode
        \o ". Must be 'single', 'batch', or 'all-in-one'"

MsgNoTransactions == "No transactions generated."

MsgNoneSigned == "Failed to sign any transactions"

\* Messages of the errors the signing of a transaction rethrows: they are
\* those of the library that deserializes (the first) and signs (the
\* second), not a text of this program.
SigningErrors ==
    {"Reached end of buffer unexpectedly", "Cannot sign with non signer key"}

\* The switch with a default that falls back to batch mode.
ModeEntryLenient(mode) ==
    CASE mode = "single"     -> "single_loop"
      [] mode = "all-in-one" -> "aio_prepare"
      [] OTHER               -> "batch_loop"

\* The switch of executeBuy: the position execution continues at.
ModeEntry(mode) ==
    CASE mode = "single"     -> "single_loop"
      [] mode = "batch"      -> "batch_loop"
      [] mode = "all-in-one" -> "aio_prepare"
      [] OTHER               -> "throw"

\* { success: false, error: error.message } of executeBuy's catch, and the
\* early returns of all-in-one mode.
Failure(message) ==
    [returned |-> TRUE, success |-> FALSE, kind |-> "message", text |-> message,
     failed |-> 0, succeeded |-> 0]

\* The tally with success meaning that nothing failed.
TallyResultStrict(unit, ok, bad) ==
    [returned  |-> TRUE,
     success   |-> bad = 0,
     kind      |-> IF bad > 0 THEN "tally" ELSE "undefined",
     text      |-> IF bad > 0 THEN unit ELSE "",
     failed    |-> IF bad > 0 THEN bad ELSE 0,
     succeeded |-> IF bad > 0 THEN ok ELSE 0]

\* The tally with the error string built whether or not a unit failed.
TallyResultAlwaysText(unit, ok, bad) ==
    [returned  |-> TRUE,
     success   |-> ok > 0,
     kind      |-> "tally",
     text      |-> unit,
     failed    |-> bad,
     succeeded |-> ok]

\* { success: ok > 0, error: bad > 0 ? `${bad} ${unit} failed, ${ok} succeeded`
\*                                   : undefined }
TallyResult(unit, ok, bad) ==
    [returned  |-> TRUE,
     success   |-> ok > 0,
     kind      |-> IF bad > 0 THEN "tally" ELSE "undefined",
     text      |-> IF bad > 0 THEN unit ELSE "",
     failed    |-> IF bad > 0 THEN bad ELSE 0,
     succeeded |-> IF bad > 0 THEN ok ELSE 0]

\* A catch block that leaves the loop.
AfterCatchBreak(idx, n) == n

\* Loop index after the catch block of a unit: the for loop goes on.
AfterCatch(idx, n) == idx + 1

\* A delay after every unit, the last one included.
DelayAfterEveryUnit(idx, n) == TRUE

\* if (i < wallets.length - 1) / if (i < batches.length - 1): the unit at
\* index idx of n is followed by the configured delay.
DelayFollows(idx, n) == idx < n - 1

\* Number of batches that drops a last batch that is not full.
NumFullBatches(n) == n \div batchSize

\* Number of batches: for (i = 0; i < wallets.length; i += batchSize)
NumBatches(n) == (n + batchSize - 1) \div batchSize

\* wallets.slice(i * batchSize, (i + 1) * batchSize).map(w => w.address)
BatchAddresses(b, n) ==
    [k \in 1..(Min((b + 1) * batchSize, n) - b * batchSize) |-> b * batchSize + k]

AllAddresses(n) == [k \in 1..n |-> k]

\* Environment choices for a Promise.all over m signing calls: at most one
\* call throws; the fee transaction can be built for every bundle, for every
\* bundle but the first, or for none.
OneFalse(m, k) == [j \in 1..m |-> j # k]

SignPatterns(m) == {OneFalse(m, k) : k \in 0..m}

FeePatterns(m) == {OneFalse(m, 0), OneFalse(m, 1), [j \in 1..m |-> FALSE]}

\* Promise.all(bundles.map(b => completeBundleSigning(b, keypairs, protocol)))
SignAll(bundles, nKeypairs, protocol, signOk, feeOk) ==
    LET one(k) == completeBundleSigning(bundles[k], nKeypairs, protocol,
                                        signOk[k], feeOk[k])
    IN  [threw   |-> \E k \in DOMAIN bundles : one(k).threw,
         bundles |-> [k \in DOMAIN bundles |-> Bundle(one(k).transactions)]]

\* signedBundles.filter(bundle => bundle.transactions.length > 0)
RECURSIVE NonEmpty(_)
NonEmpty(bundles) ==
    IF bundles = << >> THEN << >>
    ELSE IF Len(Head(bundles).transactions) > 0
         THEN << Head(bundles) >> \o NonEmpty(Tail(bundles))
         ELSE NonEmpty(Tail(bundles))

Modes == {"", "single", "batch", "all-in-one", "turbo"}

Protocols == {"pumpfun", "auto"}

DelayInputs == {Undefined, 0, CustomDelay}

Configs ==
    {[bundleMode |-> m, protocol |-> p, singleDelay |-> sd, batchDelay |-> bd] :
        m \in Modes, p \in Protocols, sd \in DelayInputs, bd \in DelayInputs}

\* Wallet lists: every length up to MaxSingleWallets in single mode; in the
\* other modes the empty list, a full batch, and one list for every number
\* of batches up to MaxBatches. A bundleMode that is not supplied is run
\* with the short lists only.
WalletCounts(mode) ==
    IF mode = "single" THEN 0..MaxSingleWallets
    ELSE IF mode = "" THEN {0, 1}
    ELSE {0, batchSize} \cup {(b - 1) * batchSize + 1 : b \in 1..MaxBatches}

\* The limiter is module state shared by all dispatches: a dispatch may find
\* it fresh or exhausted by earlier ones.
InitialRateStates ==
    {FreshRateLimitState(0),
     [FreshRateLimitState(0) EXCEPT !.count = MAX_BUNDLES_PER_SECOND]}

Init ==
    /\ config \in Configs
    /\ (config.bundleMode # "single" => config.singleDelay = Undefined)
    /\ (BundleModeOf(config) # "batch" => config.batchDelay = Undefined)
    /\ wallets \in WalletCounts(config.bundleMode)
    /\ urlSet \in BOOLEAN
    /\ env \in Envs
    /\ (env = "allSucceed" => (config.bundleMode = "single" /\ urlSet))
    /\ rateLimitState \in InitialRateStates
    /\ now = 0
    /\ pc = "start"
    /\ i = 0 /\ successful = 0 /\ failed = 0
    /\ bundlesTodo = << >> /\ signedBundle = << >> /\ sub = << >>
    /\ wakeAt = 0 /\ ret = NoResult
    /\ prepCalls = 0 /\ lastPrepArgs = << >> /\ netCalls = 0 /\ relayCalls = 0
    /\ acquired = 0
    /\ delays = 0 /\ lastDelay = 0
    /\ RateUnused /\ SplitUnused /\ PrepUnused /\ BotUnused /\ RetryUnused

inputVars == << wallets, config, urlSet, env >>

otherVars == << waiters, grantLog, overtaken, splitIn, splitOut, response, prepared, schedVars >>

callVars == << prepCalls, lastPrepArgs, netCalls, relayCalls, acquired >>

\* executeBuy up to the call of the mode function, or its catch.
ExecuteBuy ==
    /\ pc = "start"
    /\ LET entry == ModeEntry(BundleModeOf(config))
       IN  IF entry = "throw"
           THEN /\ ret' = Failure(MsgInvalidMode(BundleModeOf(config)))
                /\ pc' = "done"
           ELSE /\ pc' = entry
                /\ UNCHANGED ret
    /\ UNCHANGED << i, successful, failed, bundlesTodo, signedBundle, sub,
                    rateLimitState, now, wakeAt, delays, lastDelay >>
    /\ UNCHANGED << inputVars, otherVars, callVars >>

----------------------------------------------------------------------------
(* executeBuySingleMode *)

\* Loop head with a wallet left: getPartiallyPreparedTransactions([address])
\* up to its await of fetch. Without a configured URL it throws before any
\* request and the catch counts the wallet; otherwise the request is issued
\* and the call is suspended.
SinglePrepare ==
    /\ pc = "single_loop"
    /\ i < wallets
    /\ prepCalls' = prepCalls + 1
    /\ lastPrepArgs' = << i + 1 >>
    /\ \E reply \in BuilderRepliesIn(env) :
        LET r == getPartiallyPreparedTransactions(urlSet, reply)
        IN  /\ netCalls' = netCalls + r.fetches
            /\ IF r.fetches = 0
               THEN \* catch: failedWallets++
                    /\ failed' = failed + 1
                    /\ i' = AfterCatch(i, wallets)
                    /\ UNCHANGED pc
               ELSE /\ pc' = "single_prepare_wait"
                    /\ UNCHANGED << failed, i >>
    /\ UNCHANGED << successful, bundlesTodo, signedBundle, sub, rateLimitState,
                    now, wakeAt, ret, relayCalls, acquired, delays, lastDelay >>
    /\ UNCHANGED << inputVars, otherVars >>

\* The builder's answer arrives: the rest of getPartiallyPreparedTransactions
\* and what the loop body makes of its result.
SinglePrepared ==
    /\ pc = "single_prepare_wait"
    /\ \E reply \in BuilderRepliesIn(env) :
        LET r == getPartiallyPreparedTransactions(urlSet, reply)
        IN  /\ IF r.threw
               THEN \* catch: failedWallets++
                    /\ failed' = failed + 1
                    /\ i' = AfterCatch(i, wallets)
                    /\ pc' = "single_loop"
                    /\ UNCHANGED bundlesTodo
               ELSE IF Len(r.bundles) = 0
               THEN \* failedWallets++; continue
                    /\ failed' = failed + 1
                    /\ i' = i + 1
                    /\ pc' = "single_loop"
                    /\ UNCHANGED bundlesTodo
               ELSE /\ bundlesTodo' = r.bundles
                    /\ pc' = "single_sign"
                    /\ UNCHANGED << failed, i >>
    /\ UNCHANGED << successful, signedBundle, sub, rateLimitState, now, wakeAt,
                    ret, delays, lastDelay >>
    /\ UNCHANGED << inputVars, otherVars, callVars >>

\* for (const bundle of partiallyPreparedBundles): completeBundleSigning
SingleSign ==
    /\ pc = "single_sign"
    /\ bundlesTodo # << >>
    /\ \E signOk \in SignOutcomesIn(env), feeOk \in BOOLEAN :
        LET s == completeBundleSigning(Head(bundlesTodo), 1, config.protocol,
                                       signOk, feeOk)
        IN  IF s.threw
            THEN /\ failed' = failed + 1
                 /\ i' = AfterCatch(i, wallets)
                 /\ bundlesTodo' = << >>
                 /\ pc' = "single_loop"
                 /\ UNCHANGED signedBundle
            ELSE IF Len(s.transactions) > 0
            THEN /\ signedBundle' = s.transactions
                 /\ pc' = "single_rate"
                 /\ UNCHANGED << failed, i, bundlesTodo >>
            ELSE /\ bundlesTodo' = Tail(bundlesTodo)
                 /\ UNCHANGED << failed, i, pc, signedBundle >>
    /\ UNCHANGED << successful, sub, rateLimitState, now, wakeAt, ret, delays,
                    lastDelay >>
    /\ UNCHANGED << inputVars, otherVars, callVars >>

\* await checkRateLimit(), up to its suspension point or its end
SingleRateLimit ==
    /\ pc = "single_rate"
    /\ LET r == checkRateLimit(rateLimitState, now)
       IN  /\ rateLimitState' = r.state
           /\ IF r.wait
              THEN /\ wakeAt' = r.due
                   /\ pc' = "single_rate_wait"
                   /\ UNCHANGED acquired
              ELSE /\ acquired' = acquired + 1
                   /\ pc' = "single_send"
                   /\ UNCHANGED wakeAt
    /\ UNCHANGED << i, successful, failed, bundlesTodo, signedBundle, sub, now,
                    ret, prepCalls, lastPrepArgs, netCalls, relayCalls,
                    delays, lastDelay >>
    /\ UNCHANGED << inputVars, otherVars >>

\* the timer of checkRateLimit fires
SingleRateWake ==
    /\ pc = "single_rate_wait"
    /\ now' = wakeAt
    /\ rateLimitState' = RateAfterWait(rateLimitState, wakeAt)
    /\ acquired' = acquired + 1
    /\ pc' = "single_send"
    /\ UNCHANGED << i, successful, failed, bundlesTodo, signedBundle, sub,
                    wakeAt, ret, prepCalls, lastPrepArgs, netCalls, relayCalls,
                    delays, lastDelay >>
    /\ UNCHANGED << inputVars, otherVars >>

\* sendBundle(signedBundle.transactions) up to its await of fetch: without a
\* configured URL it throws before any request and the catch counts the
\* wallet; otherwise the request is issued and the call is suspended.
SingleSend ==
    /\ pc = "single_send"
    /\ relayCalls' = relayCalls + 1
    /\ \E answer \in RelayAnswersIn(env) :
        LET s == sendBundle(urlSet, answer)
        IN  /\ netCalls' = netCalls + s.fetches
            /\ IF s.fetches = 0
               THEN /\ failed' = failed + 1
                    /\ i' = AfterCatch(i, wallets)
                    /\ bundlesTodo' = << >>
                    /\ signedBundle' = << >>
                    /\ pc' = "single_loop"
               ELSE /\ pc' = "single_send_wait"
                    /\ UNCHANGED << failed, i, bundlesTodo, signedBundle >>
    /\ UNCHANGED << successful, sub, rateLimitState, now, wakeAt, ret,
                    prepCalls, lastPrepArgs, acquired, delays, lastDelay >>
    /\ UNCHANGED << inputVars, otherVars >>

\* The relay's answer arrives: sendBundle returns data.result or throws.
SingleSent ==
    /\ pc = "single_send_wait"
    /\ \E answer \in RelayAnswersIn(env) :
        LET s == sendBundle(urlSet, answer)
        IN  IF s.threw
            THEN /\ failed' = failed + 1
                 /\ i' = AfterCatch(i, wallets)
                 /\ bundlesTodo' = << >>
                 /\ pc' = "single_loop"
            ELSE /\ bundlesTodo' = Tail(bundlesTodo)
                 /\ pc' = "single_sign"
                 /\ UNCHANGED << failed, i >>
    /\ signedBundle' = << >>
    /\ UNCHANGED << successful, sub, rateLimitState, now, wakeAt, ret, delays,
                    lastDelay >>
    /\ UNCHANGED << inputVars, otherVars, callVars >>

\* all bundles of the wallet are through: successfulWallets++
SingleWalletDone ==
    /\ pc = "single_sign"
    /\ bundlesTodo = << >>
    /\ successful' = successful + 1
    /\ IF DelayFollows(i, wallets)
       THEN pc' = "single_delay" /\ UNCHANGED i
       ELSE pc' = "single_loop" /\ i' = i + 1
    /\ UNCHANGED << failed, bundlesTodo, signedBundle, sub, rateLimitState,
                    now, wakeAt, ret, delays, lastDelay >>
    /\ UNCHANGED << inputVars, otherVars, callVars >>

\* await new Promise(resolve => setTimeout(resolve, singleDelay))
SingleDelay ==
    /\ pc = "single_delay"
    /\ LET singleDelay == OrDefault(config.singleDelay, DEFAULT_SINGLE_DELAY)
       IN  /\ now' = now + singleDelay
           /\ lastDelay' = singleDelay
    /\ delays' = delays + 1
    /\ i' = i + 1
    /\ pc' = "single_loop"
    /\ UNCHANGED << successful, failed, bundlesTodo, signedBundle, sub,
                    rateLimitState, wakeAt, ret >>
    /\ UNCHANGED << inputVars, otherVars, callVars >>

SingleReturn ==
    /\ pc = "single_loop"
    /\ i >= wallets
    /\ ret' = TallyResult("wallets", successful, failed)
    /\ pc' = "done"
    /\ UNCHANGED << i, successful, failed, bundlesTodo, signedBundle, sub,
                    rateLimitState, now, wakeAt, delays, lastDelay >>
    /\ UNCHANGED << inputVars, otherVars, callVars >>

SingleMode ==
    \/ SinglePrepare \/ SinglePrepared \/ SingleSign \/ SingleRateLimit
    \/ SingleRateWake \/ SingleSend \/ SingleSent \/ SingleWalletDone
    \/ SingleDelay \/ SingleReturn

----------------------------------------------------------------------------
(* executeBuyBatchMode *)

\* Loop head with a batch left: the request for the addresses of the batch,
\* up to the await of fetch.
BatchPrepare ==
    /\ pc = "batch_loop"
    /\ i < NumBatches(wallets)
    /\ prepCalls' = prepCalls + 1
    /\ lastPrepArgs' = BatchAddresses(i, wallets)
    /\ \E reply \in BuilderReplies :
        LET r == getPartiallyPreparedTransactions(urlSet, reply)
        IN  /\ netCalls' = netCalls + r.fetches
            /\ IF r.fetches = 0
               THEN /\ failed' = failed + 1
                    /\ i' = AfterCatch(i, NumBatches(wallets))
                    /\ UNCHANGED pc
               ELSE /\ pc' = "batch_prepare_wait"
                    /\ UNCHANGED << failed, i >>
    /\ UNCHANGED << successful, bundlesTodo, signedBundle, sub, rateLimitState,
                    now, wakeAt, ret, relayCalls, acquired, delays, lastDelay >>
    /\ UNCHANGED << inputVars, otherVars >>

\* The builder's answer arrives: the rest of getPartiallyPreparedTransactions,
\* the test for no bundles and splitLargeBundles.
BatchPrepared ==
    /\ pc = "batch_prepare_wait"
    /\ \E reply \in BuilderReplies :
        LET r == getPartiallyPreparedTransactions(urlSet, reply)
        IN  IF r.threw
            THEN /\ failed' = failed + 1
                 /\ i' = AfterCatch(i, NumBatches(wallets))
                 /\ pc' = "batch_loop"
                 /\ UNCHANGED bundlesTodo
            ELSE IF Len(r.bundles) = 0
            THEN /\ failed' = failed + 1
                 /\ i' = i + 1
                 /\ pc' = "batch_loop"
                 /\ UNCHANGED bundlesTodo
            ELSE /\ bundlesTodo' = splitLargeBundles(r.bundles)
                 /\ pc' = "batch_sign"
                 /\ UNCHANGED << failed, i >>
    /\ UNCHANGED << successful, signedBundle, sub, rateLimitState, now, wakeAt,
                    ret, delays, lastDelay >>
    /\ UNCHANGED << inputVars, otherVars, callVars >>

\* const signedBundles = await Promise.all(splitBundles.map(...))
BatchSign ==
    /\ pc = "batch_sign"
    /\ LET m == Len(bundlesTodo)
           nKeypairs == Len(BatchAddresses(i, wallets))
       IN  \E signOk \in SignPatterns(m), feeOk \in FeePatterns(m) :
            LET s == SignAll(bundlesTodo, nKeypairs, config.protocol, signOk, feeOk)
            IN  IF s.threw
                THEN /\ failed' = failed + 1
                     /\ i' = AfterCatch(i, NumBatches(wallets))
                     /\ bundlesTodo' = << >>
                     /\ pc' = "batch_loop"
                ELSE /\ bundlesTodo' = s.bundles
                     /\ pc' = "batch_send_loop"
                     /\ UNCHANGED << failed, i >>
    /\ UNCHANGED << successful, signedBundle, sub, rateLimitState, now, wakeAt,
                    ret, delays, lastDelay >>
    /\ UNCHANGED << inputVars, otherVars, callVars >>

\* for (const bundle of signedBundles): an empty bundle is passed over
BatchSkipEmpty ==
    /\ pc = "batch_send_loop"
    /\ bundlesTodo # << >>
    /\ Len(Head(bundlesTodo).transactions) = 0
    /\ bundlesTodo' = Tail(bundlesTodo)
    /\ UNCHANGED << pc, i, successful, failed, signedBundle, sub,
                    rateLimitState, now, wakeAt, ret, delays, lastDelay >>
    /\ UNCHANGED << inputVars, otherVars, callVars >>

BatchRateLimit ==
    /\ pc = "batch_send_loop"
    /\ bundlesTodo # << >>
    /\ Len(Head(bundlesTodo).transactions) > 0
    /\ signedBundle' = Head(bundlesTodo).transactions
    /\ LET r == checkRateLimit(rateLimitState, now)
       IN  /\ rateLimitState' = r.state
           /\ IF r.wait
              THEN /\ wakeAt' = r.due
                   /\ pc' = "batch_rate_wait"
                   /\ UNCHANGED acquired
              ELSE /\ acquired' = acquired + 1
                   /\ pc' = "batch_send"
                   /\ UNCHANGED wakeAt
    /\ UNCHANGED << i, successful, failed, bundlesTodo, sub, now, ret,
                    prepCalls, lastPrepArgs, netCalls, relayCalls,
                    delays, lastDelay >>
    /\ UNCHANGED << inputVars, otherVars >>

BatchRateWake ==
    /\ pc = "batch_rate_wait"
    /\ now' = wakeAt
    /\ rateLimitState' = RateAfterWait(rateLimitState, wakeAt)
    /\ acquired' = acquired + 1
    /\ pc' = "batch_send"
    /\ UNCHANGED << i, successful, failed, bundlesTodo, signedBundle, sub,
                    wakeAt, ret, prepCalls, lastPrepArgs, netCalls, relayCalls,
                    delays, lastDelay >>
    /\ UNCHANGED << inputVars, otherVars >>

\* sendBundle(bundle.transactions) up to its await of fetch
BatchSend ==
    /\ pc = "batch_send"
    /\ relayCalls' = relayCalls + 1
    /\ \E answer \in RelayAnswersIn(env) :
        LET s == sendBundle(urlSet, answer)
        IN  /\ netCalls' = netCalls + s.fetches
            /\ IF s.fetches = 0
               THEN /\ failed' = failed + 1
                    /\ i' = AfterCatch(i, NumBatches(wallets))
                    /\ bundlesTodo' = << >>
                    /\ signedBundle' = << >>
                    /\ pc' = "batch_loop"
               ELSE /\ pc' = "batch_send_wait"
                    /\ UNCHANGED << failed, i, bundlesTodo, signedBundle >>
    /\ UNCHANGED << successful, sub, rateLimitState, now, wakeAt, ret,
                    prepCalls, lastPrepArgs, acquired, delays, lastDelay >>
    /\ UNCHANGED << inputVars, otherVars >>

\* The relay's answer arrives: sendBundle returns data.result or throws.
BatchSent ==
    /\ pc = "batch_send_wait"
    /\ \E answer \in RelayAnswersIn(env) :
        LET s == sendBundle(urlSet, answer)
        IN  IF s.threw
            THEN /\ failed' = failed + 1
                 /\ i' = AfterCatch(i, NumBatches(wallets))
                 /\ bundlesTodo' = << >>
                 /\ pc' = "batch_loop"
            ELSE /\ bundlesTodo' = Tail(bundlesTodo)
                 /\ pc' = "batch_send_loop"
                 /\ UNCHANGED << failed, i >>
    /\ signedBundle' = << >>
    /\ UNCHANGED << successful, sub, rateLimitState, now, wakeAt, ret, delays,
                    lastDelay >>
    /\ UNCHANGED << inputVars, otherVars, callVars >>

\* all bundles of the batch are through: successfulBatches++
BatchGroupDone ==
    /\ pc = "batch_send_loop"
    /\ bundlesTodo = << >>
    /\ successful' = successful + 1
    /\ IF DelayFollows(i, NumBatches(wallets))
       THEN pc' = "batch_delay" /\ UNCHANGED i
       ELSE pc' = "batch_loop" /\ i' = i + 1
    /\ UNCHANGED << failed, bundlesTodo, signedBundle, sub, rateLimitState,
                    now, wakeAt, ret, delays, lastDelay >>
    /\ UNCHANGED << inputVars, otherVars, callVars >>

\* await new Promise(resolve => setTimeout(resolve, batchDelay))
BatchDelay ==
    /\ pc = "batch_delay"
    /\ LET batchDelay == OrDefault(config.batchDelay, DEFAULT_BATCH_DELAY)
       IN  /\ now' = now + batchDelay
           /\ lastDelay' = batchDelay
    /\ delays' = delays + 1
    /\ i' = i + 1
    /\ pc' = "batch_loop"
    /\ UNCHANGED << successful, failed, bundlesTodo, signedBundle, sub,
                    rateLimitState, wakeAt, ret >>
    /\ UNCHANGED << inputVars, otherVars, callVars >>

BatchReturn ==
    /\ pc = "batch_loop"
    /\ i >= NumBatches(wallets)
    /\ ret' = TallyResult("batches", successful, failed)
    /\ pc' = "done"
    /\ UNCHANGED << i, successful, failed, bundlesTodo, signedBundle, sub,
                    rateLimitState, now, wakeAt, delays, lastDelay >>
    /\ UNCHANGED << inputVars, otherVars, callVars >>

BatchMode ==
    \/ BatchPrepare \/ BatchPrepared \/ BatchSign \/ BatchSkipEmpty
    \/ BatchRateLimit \/ BatchRateWake \/ BatchSend \/ BatchSent
    \/ BatchGroupDone \/ BatchDelay \/ BatchReturn

----------------------------------------------------------------------------
(* executeBuyAllInOneMode *)

Max(a, b) == IF a > b THEN a ELSE b

\* validSignedBundles.map(async (bundle, index) => ...): one promise per
\* bundle, suspended in its setTimeout(index * 100).
BundlePromises(bundles, t) ==
    [k \in DOMAIN bundles |->
        [bundle |-> bundles[k].transactions,
         due    |-> t + (k - 1) * STAGGER_MS,
         st     |-> "delay"]]

\* The record of one promise after sendBundle has settled.
Settled(p, threw) == [p EXCEPT !.st = IF threw THEN "failed" ELSE "ok"]

CountSt(st) == Cardinality({k \in DOMAIN sub : sub[k].st = st})

\* The request for the addresses of all wallets, up to the await of fetch.
\* Without a configured URL the call throws before any request; nothing in
\* the mode function catches it, executeBuy's catch returns its message.
AioPrepare ==
    /\ pc = "aio_prepare"
    /\ prepCalls' = prepCalls + 1
    /\ lastPrepArgs' = AllAddresses(wallets)
    /\ \E reply \in BuilderReplies :
        LET r == getPartiallyPreparedTransactions(urlSet, reply)
        IN  /\ netCalls' = netCalls + r.fetches
            /\ IF r.fetches = 0
               THEN /\ ret' = Failure(r.message)
                    /\ pc' = "done"
               ELSE /\ pc' = "aio_prepare_wait"
                    /\ UNCHANGED ret
    /\ UNCHANGED << i, successful, failed, bundlesTodo, signedBundle, sub,
                    rateLimitState, now, wakeAt, relayCalls, acquired, delays,
                    lastDelay >>
    /\ UNCHANGED << inputVars, otherVars >>

\* The builder's answer arrives: the rest of getPartiallyPreparedTransactions,
\* the test for no bundles and splitLargeBundles.
AioPrepared ==
    /\ pc = "aio_prepare_wait"
    /\ \E reply \in BuilderReplies :
        LET r == getPartiallyPreparedTransactions(urlSet, reply)
        IN  IF r.threw
            THEN \* not caught in the mode function: executeBuy's catch
                 /\ ret' = Failure(r.message)
                 /\ pc' = "done"
                 /\ UNCHANGED bundlesTodo
            ELSE IF Len(r.bundles) = 0
            THEN /\ ret' = Failure(MsgNoTransactions)
                 /\ pc' = "done"
                 /\ UNCHANGED bundlesTodo
            ELSE /\ bundlesTodo' = splitLargeBundles(r.bundles)
                 /\ pc' = "aio_sign"
                 /\ UNCHANGED ret
    /\ UNCHANGED << i, successful, failed, signedBundle, sub, rateLimitState,
                    now, wakeAt, delays, lastDelay >>
    /\ UNCHANGED << inputVars, otherVars, callVars >>

\* Promise.all over the split bundles, the filter, and the map that starts
\* one promise per valid signed bundle
AioSign ==
    /\ pc = "aio_sign"
    /\ LET m == Len(bundlesTodo)
       IN  \E signOk \in SignPatterns(m), feeOk \in FeePatterns(m),
              error \in SigningErrors :
            LET s == SignAll(bundlesTodo, wallets, config.protocol, signOk, feeOk)
                validSignedBundles == NonEmpty(s.bundles)
            IN  IF s.threw
                THEN /\ ret' = Failure(error)
                     /\ pc' = "done"
                     /\ UNCHANGED sub
                ELSE IF Len(validSignedBundles) = 0
                THEN /\ ret' = Failure(MsgNoneSigned)
                     /\ pc' = "done"
                     /\ UNCHANGED sub
                ELSE /\ sub' = BundlePromises(validSignedBundles, now)
                     /\ pc' = "aio_send"
                     /\ UNCHANGED ret
    /\ bundlesTodo' = << >>
    /\ UNCHANGED << i, successful, failed, signedBundle, rateLimitState, now,
                    wakeAt, delays, lastDelay >>
    /\ UNCHANGED << inputVars, otherVars, callVars >>

\* The stagger timer of promise k fires (timers fire in the order of their
\* due times) and the promise calls sendBundle, which issues its request and
\* is suspended, or throws at once without a configured URL.
AioTimer(k) ==
    /\ pc = "aio_send"
    /\ sub[k].st = "delay"
    /\ \A j \in 1..(k - 1) : sub[j].st # "delay"
    /\ now' = Max(now, sub[k].due)
    /\ relayCalls' = relayCalls + 1
    /\ \E answer \in RelayAnswersIn(env) :
        LET s == sendBundle(urlSet, answer)
        IN  /\ netCalls' = netCalls + s.fetches
            /\ sub' = IF s.fetches = 0
                      THEN [sub EXCEPT ![k] = Settled(sub[k], TRUE)]
                      ELSE [sub EXCEPT ![k].st = "sending"]
    /\ UNCHANGED << pc, i, successful, failed, bundlesTodo, signedBundle,
                    rateLimitState, wakeAt, ret, prepCalls, lastPrepArgs,
                    acquired, delays, lastDelay >>
    /\ UNCHANGED << inputVars, otherVars >>

\* The relay's answer to promise k arrives; the try/catch of the promise
\* turns it into {success: true, result} or {success: false, error}.
AioSettle(k) ==
    /\ pc = "aio_send"
    /\ sub[k].st = "sending"
    /\ \E answer \in RelayAnswersIn(env) :
        LET s == sendBundle(urlSet, answer)
        IN  sub' = [sub EXCEPT ![k] = Settled(sub[k], s.threw)]
    /\ UNCHANGED << pc, i, successful, failed, bundlesTodo, signedBundle,
                    rateLimitState, now, wakeAt, ret, delays, lastDelay >>
    /\ UNCHANGED << inputVars, otherVars, callVars >>

\* Promise.all semantics: resolves also as soon as one promise has failed.
AllSettledOrOneFailed ==
    \/ \A k \in DOMAIN sub : sub[k].st \in {"ok", "failed"}
    \/ \E k \in DOMAIN sub : sub[k].st = "failed"

\* Promise.allSettled resolves once every promise has settled.
AllSettled == \A k \in DOMAIN sub : sub[k].st \in {"ok", "failed"}

\* the forEach over bundleResults and the return
AioReturn ==
    /\ pc = "aio_send"
    /\ AllSettled
    /\ successful' = CountSt("ok")
    /\ failed' = CountSt("failed")
    /\ ret' = TallyResult("bundles", CountSt("ok"), CountSt("failed"))
    /\ pc' = "done"
    /\ UNCHANGED << i, bundlesTodo, signedBundle, sub, rateLimitState, now,
                    wakeAt, delays, lastDelay >>
    /\ UNCHANGED << inputVars, otherVars, callVars >>

AllInOneMode ==
    \/ AioPrepare \/ AioPrepared \/ AioSign
    \/ (\E k \in DOMAIN sub : AioTimer(k))
    \/ (\E k \in DOMAIN sub : AioSettle(k))
    \/ AioReturn

----------------------------------------------------------------------------

Next == ExecuteBuy \/ SingleMode \/ BatchMode \/ AllInOneMode

Spec == Init /\ [][Next]_vars

----------------------------------------------------------------------------
(* Properties *)

SupportedModes == {"single", "batch", "all-in-one"}

\* C1: every bundle handed to sendBundle, in any mode and for any protocol,
\* holds at most MAX_TRANSACTIONS_PER_BUNDLE transactions, a prepended fee
\* transaction included.
SentBundlesWithinLimit ==
    /\ (pc \in {"single_send", "batch_send"} =>
            Len(signedBundle) <= MAX_TRANSACTIONS_PER_BUNDLE)
    /\ \A k \in DOMAIN sub :
            sub[k].st = "sending" =>
                Len(sub[k].bundle) <= MAX_TRANSACTIONS_PER_BUNDLE

\* C2: when the relay rejects every submission at application level,
\* executeBuy returns success = false and an error that reports every unit
\* as failed and none as succeeded.
RejectingRelayFailsDispatch ==
    (pc = "done" /\ env = "relayRejects" /\ relayCalls > 0) =>
        /\ ret.success = FALSE
        /\ ret.kind = "tally"
        /\ ret.failed > 0
        /\ ret.succeeded = 0

\* C3: in every mode each call of sendBundle is preceded by its own
\* completed checkRateLimit: never more relay calls than acquired slots.
EverySendAcquiredASlot == relayCalls <= acquired

\* C4: for any number of callers of checkRateLimit, suspended ones included,
\* at most maxBundlesPerSecond slots are granted within one second measured
\* from lastReset.
RateCapPerWindow ==
    pc = "rate" =>
        GrantsInWindow(rateLimitState.lastReset) <= rateLimitState.maxBundlesPerSecond

\* C28: slots are granted in call-arrival order: no caller is granted a
\* slot while a caller that invoked checkRateLimit before it is still
\* waiting for its own.
GrantsInArrivalOrder ==
    pc = "rate" => ~overtaken

\* Units of the dispatch that succeeded / failed: wallets, batches, or the
\* settled promises of all-in-one mode.
UnitsSucceeded ==
    IF sub # << >> THEN Cardinality({k \in DOMAIN sub : sub[k].st = "ok"})
    ELSE successful

UnitsFailed ==
    IF sub # << >> THEN Cardinality({k \in DOMAIN sub : sub[k].st = "failed"})
    ELSE failed

UnitName ==
    CASE config.bundleMode = "single" -> "wallets"
      [] config.bundleMode = "all-in-one" -> "bundles"
      [] OTHER -> "batches"

\* C5: in all three modes executeBuy returns success = true iff at least one
\* unit succeeded, and whenever a unit failed the error is the tally
\* "<failed> <units> failed, <succeeded> succeeded" with the exact counts.
ResultAggregatesUnits ==
    (pc = "done" /\ config.bundleMode \in SupportedModes \cup {""}) =>
        /\ ret.returned
        /\ ret.success = (UnitsSucceeded > 0)
        /\ UnitsFailed > 0 =>
            /\ ret.kind = "tally"
            /\ ret.text = UnitName
            /\ ret.failed = UnitsFailed
            /\ ret.succeeded = UnitsSucceeded

\* A dispatch that ended with failed and succeeded units side by side.
MixedOutcomeReturned ==
    /\ pc = "done"
    /\ config.bundleMode = "all-in-one"
    /\ UnitsFailed > 0 /\ UnitsSucceeded > 0
    /\ ret.success /\ ret.kind = "tally"

\* C6: splitLargeBundles returns bundles of at most 5 transactions whose
\* concatenation equals the concatenation of the input in the same order,
\* and a bundle that has at most 5 transactions appears in the output
\* unchanged.
SplitBoundedAndOrderPreserving ==
    pc = "splitDone" =>
        /\ \A k \in DOMAIN splitOut :
                /\ splitOut[k].valid
                /\ Len(splitOut[k].transactions) <= MAX_TRANSACTIONS_PER_BUNDLE
        /\ Concat(splitOut) = Concat(splitIn)
        /\ \A k \in DOMAIN splitIn :
                (splitIn[k].valid
                 /\ Len(splitIn[k].transactions) <= MAX_TRANSACTIONS_PER_BUNDLE)
                => \E j \in DOMAIN splitOut : splitOut[j] = splitIn[k]
        /\ (\A k \in DOMAIN splitIn :
                splitIn[k].valid
                /\ Len(splitIn[k].transactions) <= MAX_TRANSACTIONS_PER_BUNDLE)
           => splitOut = splitIn

\* A bundle of more than two chunks was split next to a small bundle.
SplitOfLargeAndSmall ==
    /\ pc = "splitDone"
    /\ \E k \in DOMAIN splitIn :
            Len(splitIn[k].transactions) > 2 * MAX_TRANSACTIONS_PER_BUNDLE
    /\ \E k \in DOMAIN splitIn :
            /\ Len(splitIn[k].transactions) > 0
            /\ Len(splitIn[k].transactions) <= MAX_TRANSACTIONS_PER_BUNDLE
    /\ Len(splitOut) > Len(splitIn)

\* C7: in single mode a wallet whose preparation, signing or relay step
\* throws counts as exactly one failed wallet and the later wallets are
\* still processed: n wallets give exactly n preparation calls, each with
\* exactly one address.
SingleModeIsolatesWallets ==
    config.bundleMode = "single" =>
        /\ prepCalls <= wallets
        /\ prepCalls > 0 => lastPrepArgs = << prepCalls >>
        /\ pc \in {"single_loop", "done"} => successful + failed = i
        /\ pc = "done" => (prepCalls = wallets /\ successful + failed = wallets)

\* A later wallet is being processed after an earlier wallet has failed.
WalletProcessedAfterFailure ==
    /\ config.bundleMode = "single"
    /\ pc = "single_send"
    /\ failed >= 1
    /\ i >= 1
    /\ prepCalls = i + 1

\* C8: in all-in-one mode every signed non-empty sub-bundle is submitted and
\* settles on its own; once all have settled, succeeded plus failed equals
\* the number submitted.
AllInOneSettlesIndependently ==
    config.bundleMode = "all-in-one" =>
        /\ relayCalls = Cardinality({k \in DOMAIN sub : sub[k].st # "delay"})
        /\ (pc = "done" /\ sub # << >>) =>
            /\ \A k \in DOMAIN sub : sub[k].st \in {"ok", "failed"}
            /\ relayCalls = Len(sub)
            /\ successful + failed = Len(sub)
            /\ successful = Cardinality({k \in DOMAIN sub : sub[k].st = "ok"})

\* A sub-bundle succeeded although an earlier one had failed.
LaterSubBundleSucceedsAfterFailure ==
    /\ pc = "done"
    /\ config.bundleMode = "all-in-one"
    /\ \E j, k \in DOMAIN sub :
            j < k /\ sub[j].st = "failed" /\ sub[k].st = "ok"

\* C9 as stated: called with any bundleMode other than 'single', 'batch' or
\* 'all-in-one', the empty string and an omitted mode among them, executeBuy
\* makes no preparation or relay call and returns the invalid-mode error.
AnyOtherModeFailsFast ==
    config.bundleMode \notin SupportedModes =>
        /\ pc \in {"start", "done"}
        /\ prepCalls = 0 /\ relayCalls = 0 /\ netCalls = 0
        /\ pc = "done" =>
            /\ ret.success = FALSE
            /\ ret.kind = "message"
            /\ ret.text = MsgInvalidMode(config.bundleMode)

\* C9: called with a non-empty bundleMode other than 'single', 'batch' or
\* 'all-in-one', executeBuy makes no preparation or relay call and returns
\* success = false with the invalid-mode error; an empty or omitted
\* bundleMode is run as batch mode instead.
InvalidModeFailsFast ==
    /\ (config.bundleMode = "" /\ pc = "done") =>
          \A m \in Modes \cup {"batch"} : ret.text # MsgInvalidMode(m)
    /\ (config.bundleMode # "" /\ config.bundleMode \notin SupportedModes) =>
        /\ pc \in {"start", "done"}
        /\ prepCalls = 0 /\ relayCalls = 0 /\ netCalls = 0
        /\ pc = "done" =>
            /\ ret.returned
            /\ ret.success = FALSE
            /\ ret.kind = "message"
            /\ ret.text = MsgInvalidMode(config.bundleMode)

\* executeBuy has returned for an unsupported mode.
InvalidModeReturned ==
    /\ pc = "done"
    /\ config.bundleMode = "turbo"
    /\ wallets > 0
    /\ ret.returned

\* C10: when the endpoint is not configured, a dispatch aborts with the
\* configuration error before any unit starts: no unit is processed or
\* counted as failed.
UnconfiguredEndpointAborts ==
    (pc = "done" /\ ~urlSet /\ wallets > 0
     /\ config.bundleMode \in SupportedModes) =>
        /\ ret.success = FALSE
        /\ ret.kind = "message"
        /\ ret.text = MsgUrl
        /\ failed = 0
        /\ i = 0

----------------------------------------------------------------------------
(* SpecRetry: VolumeBot.executeWithRetry *)

DEFAULT_MAX_RETRIES == 3

BACKOFF_BASE_MS == 1000

BACKOFF_CAP_MS == 5000

MaxRetriesBound == 5

\* An Error thrown by the operation, with its message. The empty string
\* stands for an Error without a message.
Err(message) == [ok |-> FALSE, message |-> message]

\* The outcome of an invocation that resolved.
Resolved == [ok |-> TRUE, message |-> ""]

\* What one invocation of the operation may do: resolve, or reject with one
\* of these errors.
OperationErrors ==
    {Err("Failed to fetch"),
     Err("network error"),
     Err("connect ECONNREFUSED"),
     Err("timeout exceeded"),
     Err("fetching failed"),
     Err("Network request failed"),
     Err("Invalid bundle mode"),
     Err("")}

NoError == Err("undefined")

\* error.message?.includes(word): word occurs in the message as a substring,
\* letter case included.
Includes(error, word) ==
    \E k \in 1..(Len(error.message) - Len(word) + 1) :
        SubSeq(error.message, k, k + Len(word) - 1) = word

\* const isNetworkError = includes('fetch') || includes('network') ||
\*                        includes('ECONNREFUSED') || includes('timeout')
isNetworkError(error) ==
    \/ Includes(error, "fetch")
    \/ Includes(error, "network")
    \/ Includes(error, "ECONNREFUSED")
    \/ Includes(error, "timeout")

RECURSIVE Pow2(_)
Pow2(n) == IF n = 0 THEN 1 ELSE 2 * Pow2(n - 1)

\* A backoff that keeps doubling.
BackoffDelayUncapped(attempt) == BACKOFF_BASE_MS * Pow2(attempt - 1)

\* const delay = Math.min(1000 * Math.pow(2, attempt - 1), 5000)
BackoffDelay(attempt) == Min(BACKOFF_BASE_MS * Pow2(attempt - 1), BACKOFF_CAP_MS)

\* A loop that gives up only when the attempts are used up.
LeavesLoopWhenExhausted(attempt, maxRetries, error) == attempt = maxRetries

\* if (attempt === maxRetries || !isNetworkError) break;
LeavesLoop(attempt, maxRetries, error) ==
    attempt = maxRetries \/ ~isNetworkError(error)

\* The operation handed to executeWithRetry: any promise-returning function,
\* or the dispatch of a buy cycle, () => executeBuy([selectedWallet], buyConfig),
\* which the scheduler passes without a maxRetries argument.
RetryOperations == {"any", "executeBuy"}

\* What the builder and the relay may do during one dispatch of a cycle: the
\* builder is unreachable or returns one bundle, the relay answers anything.
DispatchReplies ==
    {BuilderReply("unreachable", 0, "", << >>),
     BuilderReply("ok", 200, "",
                  MkBundles(<< MAX_TRANSACTIONS_PER_BUNDLE >>, 0))}

\* The preparation or the relay request of the dispatch failed in the
\* network layer.
networkFault(reply, answer) ==
    LET prep == getPartiallyPreparedTransactions(TRUE, reply)
    IN  \/ reply.status = "unreachable"
        \/ ~prep.threw /\ prep.bundles # << >> /\ answer = "unreachable"

\* executeBuy([selectedWallet], buyConfig) with bundleMode 'single': the one
\* wallet goes through the try block of executeBuySingleMode, whose catch
\* counts it as failed, and the tally is returned.
executeBuyOneWallet(reply, answer) ==
    LET prep == getPartiallyPreparedTransactions(TRUE, reply)
        sign == completeBundleSigning(Head(prep.bundles), 1, "auto", TRUE, TRUE)
        sent == sendBundle(TRUE, answer)
        caught == \/ prep.threw
                  \/ /\ prep.bundles # << >>
                     /\ \/ sign.threw
                        \/ Len(sign.transactions) > 0 /\ sent.threw
        failedWallets == IF caught \/ prep.bundles = << >> THEN 1 ELSE 0
    IN  TallyResult("wallets", 1 - failedWallets, failedWallets)

InitRetry ==
    /\ pc = "retry"
    /\ \E m \in 1..MaxRetriesBound, op \in RetryOperations :
        /\ op = "executeBuy" => m = DEFAULT_MAX_RETRIES
        /\ retry = [maxRetries |-> m, attempt |-> 1, log |-> << >>,
                    waits |-> << >>, lastError |-> NoError, status |-> "loop",
                    operation |-> op, faults |-> << >>]
    /\ rateLimitState = FreshRateLimitState(0) /\ now = 0
    /\ DispatchUnused /\ RateUnused /\ SplitUnused /\ PrepUnused /\ BotUnused

retryFrame ==
    /\ UNCHANGED << dispatchVars, rateLimitState, now, waiters, grantLog, overtaken,
                    splitIn, splitOut, response, prepared >>
    /\ UNCHANGED << bot, timers, flight, hist, remote, remoteEnv >>

\* const result = await operation(); return result;
RetryResolve ==
    /\ pc = "retry" /\ retry.status = "loop"
    /\ retry.operation = "any"
    /\ retry' = [retry EXCEPT !.log = Append(@, Resolved), !.status = "returned"]
    /\ retryFrame

\* catch (error): lastError = error; break, or wait for the backoff delay
RetryReject ==
    /\ pc = "retry" /\ retry.status = "loop"
    /\ retry.operation = "any"
    /\ \E error \in OperationErrors :
        retry' = [retry EXCEPT
                    !.log = Append(@, error),
                    !.lastError = error,
                    !.status = IF LeavesLoop(retry.attempt, retry.maxRetries, error)
                               THEN "threw" ELSE "waiting",
                    !.waits = IF LeavesLoop(retry.attempt, retry.maxRetries, error)
                              THEN @ ELSE Append(@, BackoffDelay(retry.attempt))]
    /\ retryFrame

\* const result = await operation() with the dispatch of a buy cycle as the
\* operation: the promise of executeBuy settles; a resolved promise is
\* returned whatever its success field says, a rejected one goes to the catch.
RetryDispatch ==
    /\ pc = "retry" /\ retry.status = "loop"
    /\ retry.operation = "executeBuy"
    /\ \E reply \in DispatchReplies, answer \in RelayAnswers :
        LET result == executeBuyOneWallet(reply, answer)
            error == Err("Failed to fetch")
            leaves == LeavesLoop(retry.attempt, retry.maxRetries, error)
        IN  IF result.returned
            THEN retry' = [retry EXCEPT
                             !.log = Append(@, Resolved),
                             !.faults = Append(@, networkFault(reply, answer)),
                             !.status = "returned"]
            ELSE retry' = [retry EXCEPT
                             !.log = Append(@, error),
                             !.faults = Append(@, networkFault(reply, answer)),
                             !.lastError = error,
                             !.status = IF leaves THEN "threw" ELSE "waiting",
                             !.waits = IF leaves THEN @
                                       ELSE Append(@, BackoffDelay(retry.attempt))]
    /\ retryFrame

\* the backoff timer fires: attempt++
RetryBackoff ==
    /\ pc = "retry" /\ retry.status = "waiting"
    /\ retry' = [retry EXCEPT !.attempt = @ + 1, !.status = "loop"]
    /\ retryFrame

NextRetry == RetryResolve \/ RetryReject \/ RetryDispatch \/ RetryBackoff

SpecRetry == InitRetry /\ [][NextRetry]_vars

\* C20: executeWithRetry invokes the operation at most maxRetries times,
\* invokes it again only after a failure classified as a network error,
\* never once more after a failure that is not, returns on the first
\* success, and otherwise throws the error of the last invocation.
RetryOnlyTransientFailures ==
    pc = "retry" =>
        LET n == Len(retry.log)
        IN  /\ n <= retry.maxRetries
            /\ \A k \in 1..(n - 1) :
                    ~retry.log[k].ok /\ isNetworkError(retry.log[k])
            /\ (n > 0 /\ ~retry.log[n].ok /\ ~isNetworkError(retry.log[n]))
                    => retry.status = "threw"
            /\ retry.status = "returned" => (n > 0 /\ retry.log[n].ok)
            /\ retry.status = "threw" =>
                    /\ n > 0 /\ ~retry.log[n].ok
                    /\ retry.lastError = retry.log[n]
                    /\ (n = retry.maxRetries \/ ~isNetworkError(retry.log[n]))
            /\ (n > 0 /\ retry.log[n].ok) => retry.status = "returned"

\* A call that had attempts left gave up on a failure that is no network
\* error, after an earlier network error was retried.
GaveUpOnOtherFailure ==
    /\ pc = "retry"
    /\ retry.status = "threw"
    /\ Len(retry.log) = 2
    /\ retry.maxRetries = DEFAULT_MAX_RETRIES
    /\ isNetworkError(retry.log[1])
    /\ ~isNetworkError(retry.log[2])

\* C21: the wait before attempt k+1 is min(1000 * 2^(k-1), 5000) ms; every
\* attempt but the last of a call is followed by exactly one wait and the
\* final attempt by none.
BackoffSchedule ==
    pc = "retry" =>
        /\ \A k \in DOMAIN retry.waits :
              retry.waits[k] = IF 1000 * 2^(k - 1) < 5000
                               THEN 1000 * 2^(k - 1) ELSE 5000
        /\ Len(retry.waits) < retry.maxRetries
        /\ retry.status = "waiting" => Len(retry.waits) = Len(retry.log)
        /\ retry.status \in {"returned", "threw"} =>
              Len(retry.waits) = Len(retry.log) - 1

\* An operation that failed with a timeout twice and succeeded on the third
\* attempt: the call has returned after waits of 1000 ms and 2000 ms.
ThirdAttemptSucceeds ==
    /\ pc = "retry"
    /\ retry.maxRetries = DEFAULT_MAX_RETRIES
    /\ retry.status = "returned"
    /\ retry.log = << Err("timeout exceeded"),
                      Err("timeout exceeded"), Resolved >>
    /\ retry.waits = << 1000, 2000 >>

\* C22: when the preparation or the relay call of a cycle's dispatch fails
\* with a network-layer error, the retry wrapper invokes the dispatch again:
\* it ends on such an invocation only when the 3 attempts are used up.
DispatchRetriedOnNetworkError ==
    (pc = "retry" /\ retry.operation = "executeBuy"
        /\ retry.status \in {"returned", "threw"}) =>
        LET n == Len(retry.faults)
        IN  retry.faults[n] => n = DEFAULT_MAX_RETRIES

----------------------------------------------------------------------------
(* SpecBot, first machine: the local scheduler (class VolumeBot with its   *)
(* own timers). Timers fire in any order; a trade is in flight from the    *)
(* timer callback that began it until its dispatch settles.                *)

WARMUP_MS == 500

MS_PER_SECOND == 1000

MS_PER_MINUTE == 60000

\* private lastUsedWalletIndex: number = -1
NO_WALLET == -1

MaxPool == 2

MaxEvents == 4

MaxFairEvents == 3

\* private stats: VolumeStats = { ... all zero ... }
ZeroStats ==
    [totalTrades |-> 0, totalVolume |-> 0, successfulTrades |-> 0,
     failedTrades |-> 0, totalBuys |-> 0, totalSells |-> 0]

\* private config: VolumeConfig | null = null
NullConfig ==
    [set |-> FALSE, wallets |-> 0, intervalMin |-> 0, intervalMax |-> 0,
     interval |-> 0, duration |-> 0]

\* The fields of a new VolumeBot(). intervalId 0 is null.
NewBot ==
    [config |-> NullConfig, stats |-> ZeroStats, intervalId |-> 0,
     isRunning |-> FALSE, lastUsedWalletIndex |-> NO_WALLET,
     lastTradeType |-> "null"]

\* A configuration: pool size, the optional interval range (0 when
\* absent), the main interval and the duration.
VolumeConfig(w, min, max, d) ==
    [set |-> TRUE, wallets |-> w, intervalMin |-> min, intervalMax |-> max,
     interval |-> 1, duration |-> d]

\* The configurations start() is called with: an empty pool, one wallet with
\* an interval range and a duration, several wallets without either.
VolumeConfigs ==
    {VolumeConfig(0, 0, 0, 0), VolumeConfig(1, 1, 2, 1),
     VolumeConfig(MaxPool, 0, 0, 0)}

\* Amounts generateRandomAmount may return, in units of minAmount.
BuyAmounts == {1, 2}

\* getRandomInterval(): the values it may return, in milliseconds (the ends
\* of the range stand for the range).
getRandomInterval(cfg) ==
    IF ~cfg.set THEN {5 * MS_PER_SECOND}
    ELSE IF cfg.intervalMin # 0 /\ cfg.intervalMax # 0
    THEN {cfg.intervalMin * MS_PER_SECOND, cfg.intervalMax * MS_PER_SECOND}
    ELSE {cfg.interval * MS_PER_SECOND}

\* A selection that may repeat the previous index.
selectAnyWallet(b) ==
    IF ~b.config.set \/ b.config.wallets = 0 THEN {}
    ELSE 0..(b.config.wallets - 1)

\* selectSingleRandomWallet(), up to its first await: the indices it may
\* store in lastUsedWalletIndex. No index when the pool is empty.
selectSingleRandomWallet(b) ==
    IF ~b.config.set \/ b.config.wallets = 0 THEN {}
    ELSE IF b.config.wallets = 1 THEN {0}
    ELSE {w \in 0..(b.config.wallets - 1) : w # b.lastUsedWalletIndex}

\* const shouldBuy = this.lastTradeType !== 'buy' ? true : Math.random() > 0.4
shouldBuy(b) == IF b.lastTradeType # "buy" THEN {TRUE} ELSE BOOLEAN

\* The handle of the timer of the given kind created by the given session.
TimerKinds == << "warmup", "tick", "trade", "duration" >>

TimerId(kind, session) ==
    Len(TimerKinds) * (session - 1)
        + (CHOOSE k \in DOMAIN TimerKinds : TimerKinds[k] = kind)

\* A pending timer. session is the start() call that created it, uses
\* whether an interval timer has fired before.
Timer(kind, period, session) ==
    [id |-> TimerId(kind, session), kind |-> kind, period |-> period,
     session |-> session, uses |-> 0]

\* clearInterval(id)
clearInterval(ts, id) == {t \in ts : t.id # id}

\* A stop() that keeps the config.
stopLeavesConfig(b, ts) ==
    [bot    |-> [b EXCEPT !.intervalId = 0, !.isRunning = FALSE],
     timers |-> IF b.intervalId # 0 THEN clearInterval(ts, b.intervalId) ELSE ts]

\* A stop() that clears the interval timer and the config only.
stopKeepsRunning(b, ts) ==
    [bot    |-> [b EXCEPT !.intervalId = 0, !.config = NullConfig],
     timers |-> IF b.intervalId # 0 THEN clearInterval(ts, b.intervalId) ELSE ts]

\* stop(): clears the interval timer, if any; isRunning = false; config = null
stop(b, ts) ==
    [bot    |-> [b EXCEPT !.intervalId = 0, !.isRunning = FALSE,
                          !.config = NullConfig],
     timers |-> IF b.intervalId # 0 THEN clearInterval(ts, b.intervalId) ELSE ts]

\* Statistics that count a failed trade as a buy or a sell as well.
applyTradeCountingAttempts(st, type, amount, outcome) ==
    IF outcome = "noWallet" THEN st
    ELSE [st EXCEPT
            !.successfulTrades = IF outcome = "success" THEN @ + 1 ELSE @,
            !.failedTrades = IF outcome = "success" THEN @ ELSE @ + 1,
            !.totalVolume = IF type = "buy" /\ outcome = "success"
                            THEN @ + amount ELSE @,
            !.totalBuys = IF type = "buy" THEN @ + 1 ELSE @,
            !.totalSells = IF type = "sell" THEN @ + 1 ELSE @,
            !.totalTrades = @ + 1]

\* Statistics in which a trade that throws is counted as failed but not as a
\* trade.
applyTradeThrowNotTotalled(st, type, amount, outcome) ==
    IF outcome = "noWallet" THEN st
    ELSE IF outcome = "success"
    THEN [st EXCEPT
            !.successfulTrades = @ + 1,
            !.totalVolume = IF type = "buy" THEN @ + amount ELSE @,
            !.totalBuys = IF type = "buy" THEN @ + 1 ELSE @,
            !.totalSells = IF type = "sell" THEN @ + 1 ELSE @,
            !.totalTrades = @ + 1]
    ELSE IF outcome = "throw"
    THEN [st EXCEPT !.failedTrades = @ + 1]
    ELSE [st EXCEPT !.failedTrades = @ + 1, !.totalTrades = @ + 1]

\* The statistics after a trade of the given type has settled.
\* outcome: "success"   result.success is true
\*          "failure"   result.success is false
\*          "throw"     executeWithRetry threw
\*          "noWallet"  selectSingleRandomWallet returned null
applyTrade(st, type, amount, outcome) ==
    IF outcome = "noWallet" THEN st
    ELSE IF outcome = "success"
    THEN [st EXCEPT
            !.successfulTrades = @ + 1,
            !.totalVolume = IF type = "buy" THEN @ + amount ELSE @,
            !.totalBuys = IF type = "buy" THEN @ + 1 ELSE @,
            !.totalSells = IF type = "sell" THEN @ + 1 ELSE @,
            !.totalTrades = @ + 1]
    ELSE [st EXCEPT !.failedTrades = @ + 1, !.totalTrades = @ + 1]

TradeOutcomes == {"success", "failure", "throw"}

\* A trade begun by executeSmartTrade and not yet settled. stage "select"
\* is the await of selectSingleRandomWallet, stage "dispatch" the await of
\* executeWithRetry.
Trade(id, type, session) ==
    [id |-> id, type |-> type, stage |-> "select", session |-> session]

TradeType(buy) == IF buy THEN "buy" ELSE "sell"

\* History entry of the latest cycle: its direction and the direction of the
\* cycle before it, the wallet index selected and the index selected before,
\* the pool size, the timer that began it, whether the delay that timer
\* waited was drawn after the previous cycle, whether the timer was created
\* by an earlier session, whether the session's duration had expired, and
\* whether another trade was in flight.
Cycle(type, wallet, b, t) ==
    [dir |-> type, prevDir |-> hist.lastDir,
     pick |-> wallet, prevPick |-> hist.lastPick,
     pool |-> b.config.wallets, via |-> t.kind, fresh |-> (t.uses = 0),
     stale |-> (t.session # hist.session),
     expired |-> (hist.session \in hist.expired),
     overlap |-> (flight # {})]

NoCycle ==
    [dir |-> "null", prevDir |-> "null", pick |-> NO_WALLET,
     prevPick |-> NO_WALLET, pool |-> 0, via |-> "null", fresh |-> TRUE,
     stale |-> FALSE, expired |-> FALSE, overlap |-> FALSE]

\* An executeSmartTrade that begins no cycle once a trade has failed.
executeSmartTradeUntilFailure(b, t) ==
    IF ~b.isRunning \/ ~b.config.set \/ b.stats.failedTrades > 0
    THEN {[bot |-> b, started |-> {}, began |-> FALSE, cycle |-> NoCycle]}
    ELSE IF selectSingleRandomWallet(b) = {}
    THEN {[bot     |-> [b EXCEPT !.lastTradeType = TradeType(buy)],
           started |-> {},
           began   |-> TRUE,
           cycle   |-> Cycle(TradeType(buy), NO_WALLET, b, t)] :
             buy \in shouldBuy(b)}
    ELSE {[bot     |-> [b EXCEPT !.lastUsedWalletIndex = w],
           started |-> {Trade(hist.events + 1, TradeType(buy), hist.session)},
           began   |-> TRUE,
           cycle   |-> Cycle(TradeType(buy), w, b, t)] :
             buy \in shouldBuy(b), w \in selectSingleRandomWallet(b)}

\* executeSmartTrade(), up to the first await that leaves the event loop:
\* the possible results of a call from timer t. Nothing happens when the
\* scheduler is stopped. With an empty pool the trade function returns at
\* once and lastTradeType is assigned; otherwise the wallet index is stored
\* and the trade is in flight.
executeSmartTrade(b, t) ==
    IF ~b.isRunning \/ ~b.config.set
    THEN {[bot |-> b, started |-> {}, began |-> FALSE, cycle |-> NoCycle]}
    ELSE IF selectSingleRandomWallet(b) = {}
    THEN {[bot     |-> [b EXCEPT !.lastTradeType = TradeType(buy)],
           started |-> {},
           began   |-> TRUE,
           cycle   |-> Cycle(TradeType(buy), NO_WALLET, b, t)] :
             buy \in shouldBuy(b)}
    ELSE {[bot     |-> [b EXCEPT !.lastUsedWalletIndex = w],
           started |-> {Trade(hist.events + 1, TradeType(buy), hist.session)},
           began   |-> TRUE,
           cycle   |-> Cycle(TradeType(buy), w, b, t)] :
             buy \in shouldBuy(b), w \in selectSingleRandomWallet(b)}

\* The calls of start() and the trade cycles of one behaviour.
Events(h) == h.events

SchedInit(budget) ==
    /\ pc = "sched"
    /\ bot = NewBot
    /\ timers = {}
    /\ flight = {}
    /\ hist = [session |-> 0, events |-> 0, cycle |-> NoCycle,
               lastDir |-> "null", lastPick |-> NO_WALLET,
               lastOp |-> "new", expired |-> {}, settled |-> "none",
               budget |-> budget]
    /\ remote = << >>
    /\ remoteEnv = << >>
    /\ DispatchUnused
    /\ RateUnused
    /\ SplitUnused /\ PrepUnused
    /\ RetryUnused
    /\ rateLimitState = FreshRateLimitState(0)
    /\ now = 0

\* A new VolumeBot(), with MaxEvents calls of start() and trade cycles ahead.
InitSched == SchedInit(MaxEvents)

\* The same with MaxFairEvents of them ahead.
InitSchedFair == SchedInit(MaxFairEvents)

schedFrame ==
    UNCHANGED << dispatchVars, rateLimitState, now, waiters, grantLog, overtaken,
                 splitIn, splitOut, response, prepared, remote, remoteEnv, retry >>

\* The history after an operation that is not a cycle.
Op(h, name) ==
    [h EXCEPT !.lastOp = name, !.cycle = NoCycle, !.settled = "none"]

Call(h, name) == [Op(h, name) EXCEPT !.events = @ + 1]

\* start(config) while a session is running: throws, nothing is assigned.
StartWhileRunning ==
    /\ pc = "sched"
    /\ Events(hist) < hist.budget
    /\ bot.isRunning
    /\ hist' = Call(hist, "startRejected")
    /\ UNCHANGED << pc, bot, timers, flight >>
    /\ schedFrame

\* start(config) without window.tradingServerUrl: throws, nothing is assigned.
StartUnconfigured ==
    /\ pc = "sched"
    /\ Events(hist) < hist.budget
    /\ ~bot.isRunning
    /\ hist' = Call(hist, "startFailed")
    /\ UNCHANGED << pc, bot, timers, flight >>
    /\ schedFrame

\* start(config) and startTradingLoop(): config and isRunning are assigned,
\* the warm-up timer, the first interval timer and, for a positive
\* duration, the duration timer are created.
Start ==
    /\ pc = "sched"
    /\ Events(hist) < hist.budget
    /\ ~bot.isRunning
    /\ \E cfg \in VolumeConfigs :
         LET b1 == [bot EXCEPT !.config = cfg, !.isRunning = TRUE]
             s  == hist.session + 1
         IN  \E userInterval \in getRandomInterval(b1.config) :
               /\ bot' = [b1 EXCEPT !.intervalId = TimerId("tick", s)]
               /\ timers' = timers
                      \cup {Timer("warmup", WARMUP_MS, s),
                            Timer("tick", userInterval, s)}
                      \cup (IF cfg.duration > 0
                            THEN {Timer("duration",
                                        cfg.duration * MS_PER_MINUTE, s)}
                            ELSE {})
               /\ hist' = [Call(hist, "start") EXCEPT !.session = s]
    /\ UNCHANGED << pc, flight >>
    /\ schedFrame

\* stop(), called by the user.
Stop ==
    /\ pc = "sched"
    /\ bot' = stop(bot, timers).bot
    /\ timers' = stop(bot, timers).timers
    /\ hist' = Op(hist, IF hist.lastOp \in {"stop", "stopAgain"}
                          THEN "stopAgain" ELSE "stop")
    /\ UNCHANGED << pc, flight >>
    /\ schedFrame

\* The bookkeeping of a timer callback that called executeSmartTrade with
\* result r.
Began(h, r, name) ==
    [h EXCEPT !.lastOp = name, !.cycle = r.cycle, !.settled = "none",
              !.lastDir = IF r.began THEN r.cycle.dir ELSE @,
              !.lastPick = IF r.began /\ r.cycle.pick # NO_WALLET
                           THEN r.cycle.pick ELSE @,
              !.events = IF r.began THEN @ + 1 ELSE @]

\* The warm-up timer fires: setTimeout(executeSmartTrade, 500).
WarmupFire ==
    /\ pc = "sched"
    /\ Events(hist) < hist.budget
    /\ \E t \in timers :
         /\ t.kind = "warmup"
         /\ \E r \in executeSmartTrade(bot, t) :
              /\ bot' = r.bot
              /\ flight' = flight \cup r.started
              /\ hist' = Began(hist, r, "warmup")
         /\ timers' = timers \ {t}
    /\ UNCHANGED pc
    /\ schedFrame

\* The first interval timer fires: it draws the next interval, calls
\* executeSmartTrade and, if intervalId is set, replaces the interval timer
\* by setInterval(executeSmartTrade, nextInterval).
TickFire ==
    /\ pc = "sched"
    /\ Events(hist) < hist.budget
    /\ \E t \in timers :
         /\ t.kind = "tick"
         /\ \E nextInterval \in getRandomInterval(bot.config) :
            \E r \in executeSmartTrade(bot, t) :
              /\ flight' = flight \cup r.started
              /\ hist' = Began(hist, r, "tick")
              /\ IF r.bot.intervalId # 0
                 THEN /\ bot' = [r.bot EXCEPT
                                   !.intervalId = TimerId("trade", t.session)]
                      /\ timers' = clearInterval(timers, r.bot.intervalId)
                             \cup {Timer("trade", nextInterval, t.session)}
                 ELSE /\ bot' = r.bot
                      /\ timers' = (timers \ {t}) \cup {[t EXCEPT !.uses = 1]}
    /\ UNCHANGED pc
    /\ schedFrame

\* The replaced interval timer fires: setInterval(executeSmartTrade,
\* nextInterval). It stays pending with the same period.
TradeTimerFire ==
    /\ pc = "sched"
    /\ Events(hist) < hist.budget
    /\ \E t \in timers :
         /\ t.kind = "trade"
         /\ \E r \in executeSmartTrade(bot, t) :
              /\ bot' = r.bot
              /\ flight' = flight \cup r.started
              /\ hist' = Began(hist, r, "trade")
         /\ timers' = (timers \ {t}) \cup {[t EXCEPT !.uses = 1]}
    /\ UNCHANGED pc
    /\ schedFrame

\* The duration timer fires: setTimeout(() => this.stop(), ...).
DurationFire ==
    /\ pc = "sched"
    /\ \E t \in timers :
         /\ t.kind = "duration"
         /\ bot' = stop(bot, timers \ {t}).bot
         /\ timers' = stop(bot, timers \ {t}).timers
         /\ hist' = [Op(hist, "duration") EXCEPT
                        !.expired = @ \cup {t.session}]
    /\ UNCHANGED << pc, flight >>
    /\ schedFrame

\* What the continuation of trade f records about itself: whether it changed
\* the statistics, and if so whether the scheduler was stopped or running
\* another session than the one that began the trade.
TradeSettled(h, f, b, after) ==
    Op(h, IF after = b.stats THEN "settleDiscarded"
        ELSE IF ~b.isRunning THEN "settleStopped"
        ELSE IF f.session # h.session THEN "settleOther"
        ELSE "settle")

\* The history after a cycle has ended with the given outcome.
CycleEnded(h, f, b, after, outcome) ==
    [TradeSettled(h, f, b, after) EXCEPT !.settled = outcome]

\* selectSingleRandomWallet has resolved. The trade function reads
\* this.config: when stop() has cleared it the read throws, the catch counts
\* a failed trade and executeSmartTrade assigns lastTradeType; otherwise the
\* trade is built and executeWithRetry is awaited.
TradePrepare ==
    /\ pc = "sched"
    /\ \E f \in flight :
         /\ f.stage = "select"
         /\ IF bot.config.set
            THEN /\ flight' = (flight \ {f})
                         \cup {[f EXCEPT !.stage = "dispatch"]}
                 /\ hist' = Op(hist, "prepare")
                 /\ UNCHANGED bot
            ELSE LET after == applyTrade(bot.stats, f.type, 0, "throw")
                 IN  /\ flight' = flight \ {f}
                     /\ bot' = [bot EXCEPT !.stats = after,
                                           !.lastTradeType = f.type]
                     /\ hist' = CycleEnded(hist, f, bot, after, "throw")
    /\ UNCHANGED << pc, timers >>
    /\ schedFrame

\* executeWithRetry has settled: the statistics are updated, a successful
\* buy with the amount generateRandomAmount returned for it, and
\* executeSmartTrade assigns lastTradeType.
TradeSettle ==
    /\ pc = "sched"
    /\ \E f \in flight, outcome \in TradeOutcomes, buyAmount \in BuyAmounts :
         /\ f.stage = "dispatch"
         /\ (f.type # "buy" \/ outcome # "success") => buyAmount = 1
         /\ LET after == applyTrade(bot.stats, f.type, buyAmount, outcome)
            IN  /\ flight' = flight \ {f}
                /\ bot' = [bot EXCEPT !.stats = after, !.lastTradeType = f.type]
                /\ hist' = CycleEnded(hist, f, bot, after, outcome)
    /\ UNCHANGED << pc, timers >>
    /\ schedFrame

NextSched ==
    \/ StartWhileRunning
    \/ StartUnconfigured
    \/ Start
    \/ Stop
    \/ WarmupFire
    \/ TickFire
    \/ TradeTimerFire
    \/ DurationFire
    \/ TradePrepare
    \/ TradeSettle

SpecSched == InitSched /\ [][NextSched]_vars

\* The scheduler with its interval timers firing: a pending setInterval timer
\* is run by the event loop again and again until it is cleared.
SpecSchedFair ==
    /\ InitSchedFair /\ [][NextSched]_vars
    /\ WF_vars(TickFire) /\ WF_vars(TradeTimerFire)

----------------------------------------------------------------------------
(* Properties of the local scheduler.                                      *)

\* C12: every successful start() begins the session with all statistics at
\* zero, whatever an earlier session on the same instance counted.
StartResetsStatistics ==
    (pc = "sched" /\ hist.lastOp = "start") => bot.stats = ZeroStats

\* The timers created by the session that is running or was running last.
OwnTimers == {t \in timers : t.session = hist.session}

\* C13: after stop() on a running session no timer created by that session
\* is pending, so neither its warm-up, its interval nor its duration
\* callback can run afterwards.
NoTimerSurvivesStop ==
    (pc = "sched" /\ hist.lastOp \in {"stop", "stopAgain"}) => OwnTimers = {}

\* C14: the result of a dispatch that was in flight when stop() was called
\* is discarded: its continuation changes no statistic, neither while the
\* scheduler is stopped nor after a new session has started.
LateResultsDiscarded ==
    pc = "sched" => hist.lastOp \notin {"settleStopped", "settleOther"}

\* C16: with more than one wallet in the pool, a wallet selection never
\* picks the index of the selection before it, also when the cycle before
\* is still in flight.
ConsecutivePicksDiffer ==
    (/\ pc = "sched"
     /\ hist.cycle.pool > 1
     /\ hist.cycle.pick # NO_WALLET)
        => hist.cycle.pick # hist.cycle.prevPick

\* A second selection from a pool of several wallets made while the trade
\* of the first is in flight.
OverlappingSelections ==
    /\ pc = "sched"
    /\ hist.cycle.pool > 1
    /\ hist.cycle.overlap
    /\ hist.cycle.prevPick # NO_WALLET
    /\ hist.cycle.pick # NO_WALLET

\* C17: a sell cycle is always followed by a buy cycle, so no two
\* consecutive cycles are sells, also when the sell is still in flight.
NeverTwoSellsInARow ==
    pc = "sched" => ~(hist.cycle.dir = "sell" /\ hist.cycle.prevDir = "sell")

\* C18: the delay before every cycle begun by the interval timer was drawn
\* anew after the cycle before it.
IntervalRedrawnEveryCycle ==
    (pc = "sched" /\ hist.cycle.via \in {"tick", "trade"}) => hist.cycle.fresh

\* The duration timer of the session that is running or was running last.
OwnDurationTimer == {t \in OwnTimers : t.kind = "duration"}

\* C19: when the duration timer of a session fires the scheduler is stopped
\* (not running, no interval timer) and no cycle of that session begins
\* afterwards; a running session with a positive duration has its duration
\* timer pending, a running session with duration 0 has none.
DurationEndsSession ==
    pc = "sched" =>
        /\ hist.lastOp = "duration" =>
              /\ ~bot.isRunning
              /\ bot.intervalId = 0
              /\ \A t \in timers : t.kind \notin {"tick", "trade"}
        /\ hist.cycle # NoCycle => ~hist.cycle.expired
        /\ bot.isRunning =>
              (bot.config.duration > 0 <=> OwnDurationTimer # {})

\* The duration of a session that has traded has elapsed.
DurationElapsed ==
    /\ pc = "sched"
    /\ hist.lastOp = "duration"
    /\ hist.session \in hist.expired
    /\ hist.lastDir # "null"

----------------------------------------------------------------------------
(* SpecBot, second machine: the backend-session client (class VolumeBot    *)
(* that starts, stops and polls a session on the trading backend). Every   *)
(* request is in flight from its call until its response arrives;          *)
(* responses arrive in any order.                                          *)

\* The fields of a new backend-session VolumeBot. sessionId 0 and
\* statusCheckInterval 0 are null; stats carries one of its counters.
NewRemote ==
    [stats |-> [totalTrades |-> 0, isRunning |-> FALSE],
     sessionId |-> 0, statusCheckInterval |-> 0]

\* The values of stats.totalTrades the backend reports.
BackendTrades == {0, 1}

\* A request in flight: its number, its kind, the sessionId it was sent
\* with and whether that session was alive on the backend when it was sent.
Request(n, kind, sid, live) == [n |-> n, kind |-> kind, sid |-> sid, live |-> live]

InitBackend ==
    /\ pc = "backend"
    /\ remote = NewRemote
    /\ remoteEnv = [timers |-> {}, pending |-> {}, sessions |-> {},
                    created |-> 0, events |-> 0, lastOp |-> "new"]
    /\ bot = << >>
    /\ timers = << >>
    /\ flight = << >>
    /\ hist = << >>
    /\ DispatchUnused
    /\ RateUnused
    /\ SplitUnused /\ PrepUnused
    /\ RetryUnused
    /\ rateLimitState = FreshRateLimitState(0)
    /\ now = 0

backendFrame ==
    UNCHANGED << dispatchVars, rateLimitState, now, waiters, grantLog, overtaken,
                 splitIn, splitOut, response, prepared, bot, timers, flight, hist, retry >>

RemoteEvent(e, name) == [e EXCEPT !.lastOp = name, !.events = @ + 1]

\* start(config) while stats.isRunning: throws before any request is made.
RemoteStartRejected ==
    /\ pc = "backend"
    /\ remoteEnv.events < MaxEvents
    /\ remote.stats.isRunning
    /\ remoteEnv' = RemoteEvent(remoteEnv, "startRejected")
    /\ UNCHANGED << pc, remote >>
    /\ backendFrame

\* start(config) up to its await: the request to the backend is sent.
RemoteStartCall ==
    /\ pc = "backend"
    /\ remoteEnv.events < MaxEvents
    /\ ~remote.stats.isRunning
    /\ remoteEnv' = [RemoteEvent(remoteEnv, "startCall") EXCEPT
                       !.pending = @ \cup {Request(remoteEnv.events, "start",
                                                   0, FALSE)}]
    /\ UNCHANGED << pc, remote >>
    /\ backendFrame

\* startStatusChecking(): a new interval timer, whose handle replaces the
\* one stored in statusCheckInterval.
startStatusChecking(r, handle) ==
    IF r.sessionId = 0 THEN r ELSE [r EXCEPT !.statusCheckInterval = handle]

\* The response to a start request. When the backend has created a session
\* the fields are assigned and status checking starts; otherwise
\* startVolumeBotSession throws and start rethrows.
RemoteStartResolve ==
    /\ pc = "backend"
    /\ \E q \in remoteEnv.pending :
         /\ q.kind = "start"
         /\ \/ LET sid == remoteEnv.created + 1
                   r1  == [remote EXCEPT
                             !.sessionId = sid,
                             !.stats = [totalTrades |-> 0, isRunning |-> TRUE]]
               IN  /\ remote' = startStatusChecking(r1, sid)
                   /\ remoteEnv' = [remoteEnv EXCEPT
                                      !.pending = @ \ {q},
                                      !.sessions = @ \cup {sid},
                                      !.timers = @ \cup {sid},
                                      !.created = sid,
                                      !.lastOp = "started"]
            \/ /\ remoteEnv' = [remoteEnv EXCEPT !.pending = @ \ {q},
                                                 !.lastOp = "startFailed"]
               /\ UNCHANGED remote
    /\ UNCHANGED pc
    /\ backendFrame

\* stop() up to its await: returns at once when the bot is not running or
\* has no session, otherwise sends the stop request for this.sessionId.
stopRequest(r, e) ==
    IF ~r.stats.isRunning \/ r.sessionId = 0 THEN e.pending
    ELSE e.pending \cup
            {Request(e.events, "stop", r.sessionId, r.sessionId \in e.sessions)}

RemoteStopCall ==
    /\ pc = "backend"
    /\ remoteEnv.events < MaxEvents
    /\ remoteEnv' =
          IF stopRequest(remote, remoteEnv) = remoteEnv.pending
          THEN [remoteEnv EXCEPT !.lastOp = "stopIdle"]
          ELSE [RemoteEvent(remoteEnv, "stopCall") EXCEPT
                   !.pending = stopRequest(remote, remoteEnv)]
    /\ UNCHANGED << pc, remote >>
    /\ backendFrame

\* The fields after stop() has got its response: with the final statistics
\* ("stats"), without them ("nostats") or after stopVolumeBotSession threw.
stopSettled(r, outcome, trades) ==
    [stats |-> IF outcome = "stats"
               THEN [totalTrades |-> trades, isRunning |-> FALSE]
               ELSE [r.stats EXCEPT !.isRunning = FALSE],
     sessionId |-> 0,
     statusCheckInterval |-> 0]

RemoteStopResolve ==
    /\ pc = "backend"
    /\ \E q \in remoteEnv.pending :
         /\ q.kind = "stop"
         /\ \E outcome \in {"stats", "nostats", "throw"}, n \in BackendTrades :
              /\ outcome # "stats" => n = 0
              /\ remote' = stopSettled(remote, outcome, n)
              /\ remoteEnv' = [remoteEnv EXCEPT
                    !.pending = @ \ {q},
                    !.sessions = IF outcome = "throw" THEN @ ELSE @ \ {q.sid},
                    !.timers = @ \ {remote.statusCheckInterval},
                    !.lastOp = "stopped"]
    /\ UNCHANGED pc
    /\ backendFrame

\* A status-polling timer fires. Without a session it clears the timer
\* stored in statusCheckInterval; otherwise it sends the status request.
RemotePollFire ==
    /\ pc = "backend"
    /\ remoteEnv.events < MaxEvents
    /\ \E t \in remoteEnv.timers :
         IF remote.sessionId = 0
         THEN /\ remote' = [remote EXCEPT !.statusCheckInterval = 0]
              /\ remoteEnv' = [RemoteEvent(remoteEnv, "pollIdle") EXCEPT
                                 !.timers = @ \ {remote.statusCheckInterval}]
         ELSE /\ remoteEnv' = [RemoteEvent(remoteEnv, "poll") EXCEPT
                    !.pending = @ \cup
                        {Request(remoteEnv.events, "poll", remote.sessionId,
                                 remote.sessionId \in remoteEnv.sessions)}]
              /\ UNCHANGED remote
    /\ UNCHANGED pc
    /\ backendFrame

\* The response to a status request: response.isRunning is true (possible
\* when the session was alive at the request), it is false, or the request
\* threw. this.stats = response.stats stores the statistics object of the
\* response as it is, with its own isRunning (flag; FALSE also stands for a
\* statistics object without the field); the top-level response.isRunning
\* decides whether the session is given up.
RemotePollResolve ==
    /\ pc = "backend"
    /\ \E q \in remoteEnv.pending :
         /\ q.kind = "poll"
         /\ \E outcome \in {"running", "ended", "throw"}, n \in BackendTrades,
               flag \in BOOLEAN :
              /\ outcome = "running" => q.live
              /\ outcome = "throw" => n = 0
              /\ outcome # "running" => flag = FALSE
              /\ IF outcome = "throw"
                 THEN /\ remoteEnv' = [remoteEnv EXCEPT !.pending = @ \ {q},
                                                        !.lastOp = "pollFailed"]
                      /\ UNCHANGED remote
                 ELSE IF outcome = "running"
                 THEN /\ remote' = [remote EXCEPT
                            !.stats = [totalTrades |-> n, isRunning |-> flag]]
                      /\ remoteEnv' = [remoteEnv EXCEPT !.pending = @ \ {q},
                                                        !.lastOp = "polled"]
                 ELSE /\ remote' = [stats |-> [totalTrades |-> n,
                                               isRunning |-> FALSE],
                                    sessionId |-> 0,
                                    statusCheckInterval |-> 0]
                      /\ remoteEnv' = [remoteEnv EXCEPT
                            !.pending = @ \ {q},
                            !.sessions = @ \ {q.sid},
                            !.timers = @ \ {remote.statusCheckInterval},
                            !.lastOp = "polledEnded"]
    /\ UNCHANGED pc
    /\ backendFrame

NextBackend ==
    \/ RemoteStartRejected
    \/ RemoteStartCall
    \/ RemoteStartResolve
    \/ RemoteStopCall
    \/ RemoteStopResolve
    \/ RemotePollFire
    \/ RemotePollResolve

InitBot == InitSched \/ InitBackend

NextBot == NextSched \/ NextBackend

SpecBot == InitBot /\ [][NextBot]_vars

----------------------------------------------------------------------------
(* Properties of both schedulers.                                          *)

\* The interval timers of the local scheduler that are pending.
IntervalTimers == {t \in timers : t.kind \in {"tick", "trade"}}

\* C11: at most one session is active per scheduler instance after any
\* sequence of start and stop calls: the local scheduler has at most one
\* interval timer, the backend-session client at most one session alive on
\* the backend, and a start that was rejected found a session running.
SingleActiveSession ==
    /\ pc = "sched" =>
          /\ Cardinality(IntervalTimers) <= 1
          /\ hist.lastOp = "startRejected" => bot.isRunning
    /\ pc = "backend" =>
          /\ Cardinality(remoteEnv.sessions) <= 1
          /\ remoteEnv.lastOp = "startRejected" => remote.stats.isRunning

\* The backend-session client is idle: stop() returns at its first test.
RemoteIdle(r) == ~r.stats.isRunning \/ r.sessionId = 0

\* C15: stop() is idempotent. In the local scheduler a second stop() leaves
\* the state the first one produced (not running, no config, no interval
\* timer), and stop() while idle changes nothing. In the backend-session
\* client a completed stop() leaves the client idle with no session and no
\* polling handle, and stop() while idle sends no request.
StopIsIdempotent ==
    /\ pc = "sched" =>
          LET once  == stop(bot, timers)
              twice == stop(once.bot, once.timers)
          IN  /\ twice = once
              /\ ~once.bot.isRunning
              /\ ~once.bot.config.set
              /\ once.bot.intervalId = 0
              /\ \A t \in once.timers : t.kind \notin {"tick", "trade"}
              /\ ~bot.isRunning => once = [bot |-> bot, timers |-> timers]
    /\ pc = "backend" =>
          /\ RemoteIdle(remote) =>
                stopRequest(remote, remoteEnv) = remoteEnv.pending
          /\ \A outcome \in {"stats", "nostats", "throw"}, n \in BackendTrades :
                LET once == stopSettled(remote, outcome, n)
                IN  /\ RemoteIdle(once)
                    /\ stopRequest(once, remoteEnv) = remoteEnv.pending
          /\ remoteEnv.lastOp = "stopped" =>
                /\ RemoteIdle(remote)
                /\ remote.statusCheckInterval = 0
                /\ remote.statusCheckInterval \notin remoteEnv.timers

\* stop() has been called twice in a row after a session that traded.
StoppedTwice ==
    /\ pc = "sched"
    /\ hist.lastOp = "stopAgain"
    /\ hist.lastDir # "null"

----------------------------------------------------------------------------
(* SpecSchedFair: what follows a failed cycle *)

\* A cycle has just ended as a failed trade while the session is running.
FailedCycleWhileRunning ==
    pc = "sched" /\ hist.settled \in {"failure", "throw"} /\ bot.isRunning

\* A timer callback has just begun a trade cycle.
CycleBegun ==
    pc = "sched" /\ hist.lastOp \in {"warmup", "tick", "trade"}
        /\ hist.cycle # NoCycle

\* C23: a failing trade cycle never ends the session. The step that ends a
\* cycle as a failed trade leaves isRunning, the config and every pending
\* timer as they are, and after a failed cycle of a running session another
\* cycle eventually begins unless the session is stopped first (by stop() or
\* by the duration timer) or the event budget of the model is used up.
FailedCycleKeepsSession ==
    /\ [][(pc = "sched" /\ hist'.settled \in {"failure", "throw"}) =>
            /\ bot'.isRunning = bot.isRunning
            /\ bot'.config = bot.config
            /\ bot'.intervalId = bot.intervalId
            /\ timers' = timers]_vars
    /\ (FailedCycleWhileRunning ~>
            (CycleBegun \/ ~bot.isRunning \/ Events(hist) >= hist.budget))

\* A cycle has begun in a running session in which a trade had failed.
CycleAfterFailedCycle ==
    /\ CycleBegun
    /\ bot.isRunning
    /\ bot.stats.failedTrades > 0
    /\ hist.cycle.stale = FALSE
    /\ hist.session = 1

----------------------------------------------------------------------------
(* Spec: batch mode and single mode, further properties *)

\* C25: in batch mode the wallets are cut into consecutive groups of 5 and
\* the preparation client is called once per group, ceil(|W| / 5) times in
\* all, the k-th call with the addresses 5(k-1)+1 .. min(5k, |W|), whether
\* or not groups fail.
BatchModePartitionsWallets ==
    BundleModeOf(config) = "batch" =>
        LET groups == (wallets + 4) \div 5
            first  == 5 * (prepCalls - 1)
            size   == IF wallets - first < 5 THEN wallets - first ELSE 5
        IN  /\ prepCalls <= groups
            /\ prepCalls > 0 => lastPrepArgs = [k \in 1..size |-> first + k]
            /\ pc \in {"batch_loop", "done"} => successful + failed = i
            /\ pc = "done" => prepCalls = groups

\* Six wallets: the first group of five has failed and the preparation call
\* of the second group, which carries the sixth address alone, has been made.
SecondGroupPreparedAfterFailure ==
    /\ pc = "done"
    /\ config.bundleMode = "batch"
    /\ wallets = 6
    /\ prepCalls = 2
    /\ lastPrepArgs = << 6 >>
    /\ failed >= 1

\* C26: in batch mode the wait between groups is batchDelay (1000 ms when
\* none is configured) and follows a group only when another group comes
\* after it: never more than k-1 waits for k groups, and exactly k-1 when
\* all k groups succeed.
BatchDelayBetweenGroups ==
    BundleModeOf(config) = "batch" =>
        LET k == (wallets + 4) \div 5
        IN  /\ delays <= successful
            /\ k > 0 => delays <= k - 1
            /\ k = 0 => delays = 0
            /\ delays > 0 =>
                  lastDelay = IF config.batchDelay \in {Undefined, 0}
                              THEN 1000 ELSE config.batchDelay
            /\ pc = "batch_delay" => i < k - 1
            /\ (pc = "done" /\ k > 0 /\ successful = k) => delays = k - 1

\* Two groups that both succeeded, with one wait of the configured length.
TwoGroupsOneWait ==
    /\ pc = "done"
    /\ config.bundleMode = "batch"
    /\ config.batchDelay = CustomDelay
    /\ wallets > 5
    /\ prepCalls = 2
    /\ successful = 2 /\ failed = 0
    /\ delays = 1 /\ lastDelay = CustomDelay

\* C27 as stated, for every n: in single mode, when the builder returns one
\* bundle per wallet, every signing succeeds and the relay accepts every
\* submission, executeBuy returns success = true without an error string
\* after exactly n relay calls made in wallet order.
AllSucceedingSingleRun ==
    (config.bundleMode = "single" /\ env = "allSucceed") =>
        /\ failed = 0
        /\ pc = "single_send" => (relayCalls = i /\ lastPrepArgs = << i + 1 >>)
        /\ pc = "done" =>
              /\ ret.returned /\ ret.success
              /\ ret.kind = "undefined"
              /\ relayCalls = wallets /\ prepCalls = wallets

\* C27 for n >= 1 wallets: the same, a run without wallets excepted.
AllSucceedingSingleRunOfSomeWallets ==
    (config.bundleMode = "single" /\ env = "allSucceed" /\ wallets >= 1) =>
        /\ failed = 0
        /\ pc = "single_send" => (relayCalls = i /\ lastPrepArgs = << i + 1 >>)
        /\ pc = "done" =>
              /\ ret.returned /\ ret.success
              /\ ret.kind = "undefined"
              /\ relayCalls = wallets /\ prepCalls = wallets

\* Three wallets went through, each with one relay call.
ThreeWalletsAllSucceeded ==
    /\ pc = "done"
    /\ config.bundleMode = "single" /\ env = "allSucceed"
    /\ wallets = 3
    /\ relayCalls = 3
    /\ ret.returned /\ ret.success

\* C30: in all-in-one mode a signing failure in one sub-bundle counts as one
\* failed unit and does not abort the dispatch: when two or more sub-bundles
\* with transactions are to be signed and at most one signing fails, the
\* others are handed to the relay, and the dispatch does not end with the
\* signing error as its result.
AllInOneSigningFailureIsolated ==
    [][(/\ pc = "aio_sign"
        /\ wallets > 0
        /\ Len(bundlesTodo) >= 2
        /\ \A k \in DOMAIN bundlesTodo :
              bundlesTodo[k].valid /\ Len(bundlesTodo[k].transactions) > 0)
       => /\ pc' = "aio_send"
          /\ Len(sub') >= Len(bundlesTodo) - 1
          /\ \A error \in SigningErrors : ret' # Failure(error)]_vars

----------------------------------------------------------------------------
(* SpecBot: the statistics of a failed cycle *)

\* C29: a trade cycle that fails, its dispatch returning success = false or
\* throwing, increases failedTrades by exactly 1 and leaves
\* successfulTrades, totalVolume, totalBuys and totalSells as they were.
FailedCycleCountsOneFailure ==
    [][(pc = "sched" /\ hist'.settled \in {"failure", "throw"}) =>
          /\ bot'.stats.failedTrades = bot.stats.failedTrades + 1
          /\ bot'.stats.successfulTrades = bot.stats.successfulTrades
          /\ bot'.stats.totalVolume = bot.stats.totalVolume
          /\ bot'.stats.totalBuys = bot.stats.totalBuys
          /\ bot'.stats.totalSells = bot.stats.totalSells]_vars

\* A cycle has just failed after an earlier buy had succeeded: the failure
\* is counted and the counters of the successful buy stand.
FailureAfterSuccessfulBuy ==
    /\ pc = "sched"
    /\ hist.settled \in {"failure", "throw"}
    /\ bot.stats.failedTrades = 1
    /\ bot.stats.successfulTrades = 1
    /\ bot.stats.totalBuys = 1
    /\ bot.stats.totalVolume > 0
    /\ bot.stats.totalTrades = 2

----------------------------------------------------------------------------
(* Spec: signing, delays and results, further properties *)

\* C31: the signing of a bundle with a transactions list returns the signed
\* transactions in their input order, preceded by the fee transaction when
\* one was built (protocol pumpfun or bonk); a fee transaction that cannot
\* be built does not fail the signing: where every signing succeeds the
\* step never ends in the catch block.
FeeFailureKeepsSignedTransactions ==
    [][(pc = "single_sign" /\ bundlesTodo # << >> /\ Head(bundlesTodo).valid) =>
         LET txs    == Head(bundlesTodo).transactions
             signed == [k \in DOMAIN txs |-> [txs[k] EXCEPT !.signed = TRUE]]
         IN  \/ pc' = "single_rate" /\ signed # << >> /\ signedBundle' = signed
             \/ /\ pc' = "single_rate"
                /\ config.protocol \in {"pumpfun", "bonk"}
                /\ signedBundle' = << FeeTx >> \o signed
             \/ /\ pc' = "single_sign" /\ signed = << >>
                /\ bundlesTodo' = Tail(bundlesTodo)
             \/ /\ pc' = "single_loop" /\ signed # << >>
                /\ env # "allSucceed"]_vars

\* A bundle signed under protocol pumpfun whose fee transaction could not be
\* built: the signed main transactions alone go to the relay.
SignedWithoutFee ==
    /\ pc = "single_rate"
    /\ config.protocol = "pumpfun"
    /\ env = "allSucceed"
    /\ signedBundle # << >>
    /\ \A k \in DOMAIN signedBundle :
          signedBundle[k].kind = "tx" /\ signedBundle[k].signed

\* C32: in single mode every wait between two wallets has the length of the
\* supplied singleDelay, a supplied zero included, and the default length only
\* when no singleDelay is supplied; there are fewer waits than wallets.
SingleDelayAsConfigured ==
    (BundleModeOf(config) = "single" /\ delays > 0) =>
        /\ lastDelay = IF config.singleDelay = Undefined
                       THEN DEFAULT_SINGLE_DELAY
                       ELSE config.singleDelay
        /\ delays < wallets

----------------------------------------------------------------------------
(* The local scheduler: statistics, sessions and cycles, further properties *)

\* C33: in every state of the scheduler totalTrades is the sum of
\* successfulTrades and failedTrades, and successfulTrades the sum of
\* totalBuys and totalSells.
StatisticsBalance ==
    pc = "sched" =>
        /\ bot.stats.totalTrades =
               bot.stats.successfulTrades + bot.stats.failedTrades
        /\ bot.stats.successfulTrades =
               bot.stats.totalBuys + bot.stats.totalSells

\* A buy and a sell have succeeded and a third trade has thrown.
BuySellAndThrownTrade ==
    /\ pc = "sched"
    /\ hist.settled = "throw"
    /\ bot.stats.totalBuys = 1
    /\ bot.stats.totalSells = 1
    /\ bot.stats.failedTrades = 1

\* C34: a timer created by an earlier session never acts on a later one: a
\* duration timer that stops a running session was created by that session,
\* and no trade cycle is begun by a timer of an earlier session.
EarlierTimersLeaveLaterSession ==
    [][pc = "sched" =>
         /\ (bot.isRunning /\ hist'.expired # hist.expired) =>
                hist.session \in hist'.expired
         /\ ~hist'.cycle.stale]_vars

\* C35: at most one trade of the scheduler is in flight: no timer begins a
\* trade while the trade of the cycle before has not settled.
AtMostOneTradeInFlight ==
    pc = "sched" => Cardinality(flight) <= 1

\* C36: the first trade cycle of every session is a buy: a cycle that one of
\* the session's own timers begins right after start() buys, whatever the
\* trade type of the last cycle of the session before.
FirstCycleOfSessionBuys ==
    [][(/\ pc = "sched"
        /\ hist.lastOp = "start"
        /\ hist'.events > hist.events
        /\ hist'.lastOp \in {"warmup", "tick"}
        /\ ~hist'.cycle.stale)
          => hist'.cycle.dir = "buy"]_vars

\* C37: in single and batch mode every unit counted as succeeded has had at
\* least one bundle submitted to the relay, so the relay has been called at
\* least once for each succeeded unit.
SucceededUnitsWereSubmitted ==
    BundleModeOf(config) \in {"single", "batch"} => successful <= relayCalls

\* C38: a result of executeBuy with success = false carries an error string
\* that is not empty, in every bundle mode and for every wallet list.
FailureCarriesErrorText ==
    (pc = "done" /\ ret.returned /\ ~ret.success) =>
        (ret.kind # "undefined" /\ ret.text # "")

----------------------------------------------------------------------------
(* The backend-session client, further properties *)

\* C39: in every state of the backend-session client stats.isRunning implies
\* that sessionId is not null, whatever the order of start(), stop() and the
\* responses to the status requests.
RunningHasSession ==
    pc = "backend" => (remote.stats.isRunning => remote.sessionId # 0)

\* C40: at most one backend session and at most one status-polling timer
\* exist at any time, and no polling timer is left when stop() has
\* completed.
OneSessionOnePollingTimer ==
    pc = "backend" =>
        /\ Cardinality(remoteEnv.sessions) <= 1
        /\ Cardinality(remoteEnv.timers) <= 1
        /\ remoteEnv.lastOp = "stopped" => remoteEnv.timers = {}

====
